---- MODULE Spec2Model ----
(***************************************************************************)
(* A model of the flight-email pipeline of gmail-flight-tracker:           *)
(*   src/src/email_filter.py      candidate classifier and deep match      *)
(*   src/src/email_fetcher.py     EmailFetcher.fetch_and_filter_emails     *)
(*   src/src/email_processor.py   process_emails                           *)
(*   src/src/parsers/flight_parser.py   parse_flight_email                 *)
(*   src/src/main.py              deduplicate_flights                      *)
(*   src/src/process_emails.py    process_stored_emails, main              *)
(*   src/src/utils/llm_cost.py    confirm_llm_run, estimate_llm_cost       *)
(*   src/src/llm/extractor.py     the prompts and the calls of the LLM     *)
(*   src/src/storage/email_storage.py   EmailStorage.load_emails           *)
(*   src/src/gmail_client.py      fetch_flight_emails                      *)
(*                                                                         *)
(* A Python str is modelled as a sequence of one-character strings, so     *)
(* that lower(), substring tests, split() and the regular expressions of   *)
(* the code are computed character by character.                           *)
(*                                                                         *)
(* No operator parameter bears the name of a variable: TLC computes a      *)
(* constant definition once only if nothing in it looks like a variable.   *)
(***************************************************************************)
EXTENDS Integers, Sequences, FiniteSets, TLC

\* ------------------------------------------------------------------------
\* Characters
\* ------------------------------------------------------------------------

UpperSeq ==
  <<"A","B","C","D","E","F","G","H","I","J","K","L","M",
    "N","O","P","Q","R","S","T","U","V","W","X","Y","Z">>

LowerSeq ==
  <<"a","b","c","d","e","f","g","h","i","j","k","l","m",
    "n","o","p","q","r","s","t","u","v","w","x","y","z">>

Upper == {UpperSeq[i] : i \in DOMAIN UpperSeq}

Lower == {LowerSeq[i] : i \in DOMAIN LowerSeq}

Digit == {"0","1","2","3","4","5","6","7","8","9"}

Letter == Upper \cup Lower

\* Python's \s on the characters of the model
Space == {" ", "\t", "\n", "\r"}

\* Python's \w on the characters of the model
WordCh == Letter \cup Digit \cup {"_"}

Punct == {".", ",", ":", "#", "-", ">", "(", ")", "@", "/", "$", "_", "!"}

\* the characters the model's strings are made of (ASCII only)
AllChars == Letter \cup Digit \cup Space \cup Punct

\* str.lower() on one character
ToLowerCh(c) ==
  IF c \in Upper THEN LowerSeq[CHOOSE i \in DOMAIN UpperSeq : UpperSeq[i] = c] ELSE c

\* str.upper() on one character
ToUpperCh(c) ==
  IF c \in Lower THEN UpperSeq[CHOOSE i \in DOMAIN LowerSeq : LowerSeq[i] = c] ELSE c

\* the characters that match a member of S when case is ignored
CaseClosure(S) ==
  S \cup {ToLowerCh(c) : c \in S} \cup {ToUpperCh(c) : c \in S}

\* ------------------------------------------------------------------------
\* Strings
\* ------------------------------------------------------------------------

\* str.lower()
StrLower(s) == [i \in 1..Len(s) |-> ToLowerCh(s[i])]

\* Python's "sub in s"
Contains(s, sub) ==
  \E i \in 1..(Len(s) - Len(sub) + 1) : SubSeq(s, i, i + Len(sub) - 1) = sub

\* any(c.isalpha() for c in s), s.isalpha(), s.isdigit(), s.isupper()
AnyAlpha(s) == \E i \in 1..Len(s) : s[i] \in Letter

AnyDigit(s) == \E i \in 1..Len(s) : s[i] \in Digit

StrIsAlpha(s) == Len(s) > 0 /\ \A i \in 1..Len(s) : s[i] \in Letter

StrIsDigit(s) == Len(s) > 0 /\ \A i \in 1..Len(s) : s[i] \in Digit

\* str.isupper(): at least one cased character and no lower-case one
StrIsUpper(s) ==
  /\ \E i \in 1..Len(s) : s[i] \in Upper
  /\ \A i \in 1..Len(s) : s[i] \notin Lower

\* the least and the greatest member of a non-empty set of integers
MinOf(S) == CHOOSE x \in S : \A y \in S : x <= y

MaxOf(S) == CHOOSE x \in S : \A y \in S : x >= y

NotASpace(ch) == ch # " "

\* s.replace(' ', '')
RemoveSpaces(s) == SelectSeq(s, NotASpace)

\* s.split('T')[0]: the text before the first "T"
BeforeFirstT(s) ==
  LET ts == {i \in 1..Len(s) : s[i] = "T"}
  IN IF ts = {} THEN s ELSE SubSeq(s, 1, MinOf(ts) - 1)

\* ------------------------------------------------------------------------
\* Regular expressions (Python's re): a pattern is a tree of nodes, and
\* Run is the backtracking matcher: alternatives in order, greedy
\* repetition longest first, lazy repetition shortest first.
\* ------------------------------------------------------------------------

\* [S]
Ch(S) == [t |-> "ch", s |-> S]

\* [^S]
NotCh(S) == [t |-> "nch", s |-> S]

\* . (any character but a newline)
Dot == [t |-> "nch", s |-> {"\n"}]

\* a b c
Cat(rs) == [t |-> "cat", rs |-> rs]

\* a|b|c
Alt(rs) == [t |-> "alt", rs |-> rs]

\* r{lo,hi}, greedy; hi = -1 is "no upper limit"
Rep(r, lo, hi) == [t |-> "rep", r |-> r, lo |-> lo, hi |-> hi, lazy |-> FALSE]

\* r{lo,hi}?
RepLazy(r, lo, hi) == [t |-> "rep", r |-> r, lo |-> lo, hi |-> hi, lazy |-> TRUE]

\* r?  r*  r+
Opt(r) == Rep(r, 0, 1)

Star(r) == Rep(r, 0, -1)

Plus(r) == Rep(r, 1, -1)

\* (r), capturing group n
Grp(n, r) == [t |-> "grp", n |-> n, r |-> r]

\* (?-i:r)
CaseSens(r) == [t |-> "cs", r |-> r]

\* (?<![S])
NotBehind(S) == [t |-> "nlb", s |-> S]

\* (?![S])
NotAhead(S) == [t |-> "nla", s |-> S]

\* \b  ^  $
WordB == [t |-> "wb"]

Bol == [t |-> "bol"]

Eol == [t |-> "eol"]

\* a literal text; ci says whether case is ignored
Lit(str) == [t |-> "lit", str |-> str, ci |-> FALSE]

\* the pattern compiled with re.IGNORECASE (or a leading (?i))
RECURSIVE IgnoreCase(_)
IgnoreCase(r) ==
  CASE r.t \in {"ch", "nch", "nlb", "nla"} -> [r EXCEPT !.s = CaseClosure(r.s)]
    [] r.t = "lit" -> [r EXCEPT !.ci = TRUE]
    [] r.t \in {"cat", "alt"} -> [r EXCEPT !.rs = [i \in DOMAIN r.rs |-> IgnoreCase(r.rs[i])]]
    [] r.t \in {"rep", "grp"} -> [r EXCEPT !.r = IgnoreCase(r.r)]
    [] r.t = "cs" -> r
    [] OTHER -> r

\* the number of capturing groups a match records
NGroups == 2

NoCaps == [n \in 1..NGroups |-> [b |-> 0, e |-> 0]]

NoMatch == [p |-> 0, c |-> NoCaps]

IsWordAt(s, i) == i >= 1 /\ i <= Len(s) /\ s[i] \in WordCh

\* does the literal r match s at position i
LitAt(r, s, i) ==
  /\ i + Len(r.str) - 1 <= Len(s)
  /\ \A j \in 1..Len(r.str) :
       IF r.ci THEN ToLowerCh(s[i + j - 1]) = ToLowerCh(r.str[j])
       ELSE s[i + j - 1] = r.str[j]

\* does the one-character node r match the character ch
ChMatches(r, ch) == IF r.t = "ch" THEN ch \in r.s ELSE ch \notin r.s

\* how many characters from position i on, at most hi (-1: no limit), match
\* the one-character node r
RunLength(r, s, i, hi) ==
  LET lim  == IF hi < 0 \/ hi > Len(s) - i + 1 THEN Len(s) - i + 1 ELSE hi
      full == {n \in 0..lim : \A j \in 1..n : ChMatches(r, s[i + j - 1])}
  IN MaxOf(full)

\* F(v), with v computed once
Bind(v, F(_)) == CHOOSE r \in {F(x) : x \in {v}} : TRUE

\* tries is a set of <<count, result>>: the result of the greatest count that
\* matched (of the least one when lazy), NoMatch when none did
PickTry(tries, lazy) ==
  LET ok == {x \in tries : x[2].p # 0}
  IN IF ok = {} THEN NoMatch
     ELSE (CHOOSE x \in ok : \A y \in ok : IF lazy THEN x[1] <= y[1] ELSE x[1] >= y[1])[2]

\* Run(k, s, i, c): match the nodes of k, in order, from position i of s;
\* the result is NoMatch or [p |-> the position after the match, c |-> groups].
\* A repetition of a one-character node tries its counts longest first
\* (shortest first when lazy), any other repetition one more round first.
RECURSIVE Run(_, _, _, _)
Run(k, s, i, c) ==
  IF k = <<>> THEN [p |-> i, c |-> c]
  ELSE
    LET r    == Head(k)
        rest == Tail(k)
    IN CASE r.t \in {"ch", "nch"} ->
              IF i <= Len(s) /\ ChMatches(r, s[i]) THEN Run(rest, s, i + 1, c) ELSE NoMatch
         [] r.t = "lit" ->
              IF LitAt(r, s, i) THEN Run(rest, s, i + Len(r.str), c) ELSE NoMatch
         [] r.t = "cat" -> Run(r.rs \o rest, s, i, c)
         [] r.t = "cs" -> Run(<<r.r>> \o rest, s, i, c)
         [] r.t = "alt" ->
              IF r.rs = <<>> THEN NoMatch
              ELSE Bind(Run(<<Head(r.rs)>> \o rest, s, i, c),
                        LAMBDA first : IF first.p # 0 THEN first
                                       ELSE Run(<<Alt(Tail(r.rs))>> \o rest, s, i, c))
         [] r.t = "rep" /\ r.r.t \in {"ch", "nch"} ->
              Bind({<<n, Run(rest, s, i + n, c)>> : n \in r.lo..RunLength(r.r, s, i, r.hi)},
                   LAMBDA tries : PickTry(tries, r.lazy))
         [] r.t = "rep" /\ r.r.t \notin {"ch", "nch"} ->
              LET lo1  == IF r.lo > 0 THEN r.lo - 1 ELSE 0
                  hi1  == IF r.hi > 0 THEN r.hi - 1 ELSE r.hi
                  more == IF r.hi = 0 THEN NoMatch
                          ELSE Run(<<r.r, [r EXCEPT !.lo = lo1, !.hi = hi1]>> \o rest, s, i, c)
                  stop == IF r.lo > 0 THEN NoMatch ELSE Run(rest, s, i, c)
              IN IF r.lazy
                 THEN Bind(stop, LAMBDA m : IF m.p # 0 THEN m ELSE more)
                 ELSE Bind(more, LAMBDA m : IF m.p # 0 THEN m ELSE stop)
         [] r.t = "grp" ->
              Run(<<[t |-> "open", n |-> r.n], r.r, [t |-> "close", n |-> r.n]>> \o rest, s, i, c)
         [] r.t = "open" -> Run(rest, s, i, [c EXCEPT ![r.n].b = i])
         [] r.t = "close" -> Run(rest, s, i, [c EXCEPT ![r.n].e = i])
         [] r.t = "nlb" ->
              IF i > 1 /\ s[i - 1] \in r.s THEN NoMatch ELSE Run(rest, s, i, c)
         [] r.t = "nla" ->
              IF i <= Len(s) /\ s[i] \in r.s THEN NoMatch ELSE Run(rest, s, i, c)
         [] r.t = "wb" ->
              IF IsWordAt(s, i - 1) # IsWordAt(s, i) THEN Run(rest, s, i, c) ELSE NoMatch
         [] r.t = "bol" -> IF i = 1 THEN Run(rest, s, i, c) ELSE NoMatch
         [] r.t = "eol" ->
              IF i = Len(s) + 1 \/ (i = Len(s) /\ s[i] = "\n")
              THEN Run(rest, s, i, c) ELSE NoMatch

\* tries is a set of <<start, result>>: the match of the least start that
\* matched, as [b |-> start, p |-> the position after it, c |-> groups]
PickStart(tries) ==
  LET ok == {x \in tries : x[2].p # 0}
  IN IF ok = {} THEN [b |-> 0, p |-> 0, c |-> NoCaps]
     ELSE LET x == CHOOSE x \in ok : \A y \in ok : x[1] <= y[1]
          IN [b |-> x[1], p |-> x[2].p, c |-> x[2].c]

\* a match object: where it starts (b), the position after it (p), its groups;
\* p = 0 when there is no match. The leftmost start from position i on wins.
SearchFrom(r, s, i) ==
  Bind({<<j, Run(<<r>>, s, j, NoCaps)>> : j \in i..(Len(s) + 1)}, PickStart)

\* re.search(r, s): the leftmost match
Search(r, s) == SearchFrom(r, s, 1)

\* re.match(r, s): a match at the start of s
MatchAtStart(r, s) ==
  LET m == Run(<<r>>, s, 1, NoCaps)
  IN [b |-> IF m.p # 0 THEN 1 ELSE 0, p |-> m.p, c |-> m.c]

Found(m) == m.p # 0

\* m.group(n)
Group(s, m, n) == SubSeq(s, m.c[n].b, m.c[n].e - 1)

\* [m.group(1) for m in re.finditer(r, s)]: the non-overlapping matches,
\* left to right (no pattern of the code matches the empty string)
RECURSIVE FindAllFrom(_, _, _)
FindAllFrom(r, s, i) ==
  LET m == SearchFrom(r, s, i)
  IN IF ~Found(m) THEN <<>>
     ELSE <<Group(s, m, 1)>> \o FindAllFrom(r, s, IF m.p > m.b THEN m.p ELSE m.p + 1)

FindAll(r, s) == FindAllFrom(r, s, 1)

\* ------------------------------------------------------------------------
\* src/src/email_filter.py
\* ------------------------------------------------------------------------

UpperOrDigit == Upper \cup Digit

\* PATTERNS['confirmation_code'] = (?<![A-Z0-9])([A-Z0-9]{6})(?![A-Z0-9])
ConfirmationCodePattern ==
  Cat(<<NotBehind(UpperOrDigit), Grp(1, Rep(Ch(UpperOrDigit), 6, 6)), NotAhead(UpperOrDigit)>>)

\* PATTERNS['flight_number'] = (?<![A-Z0-9])([A-Z]{2}\d{3,4})(?![A-Z0-9])
FlightNumberPattern ==
  Cat(<<NotBehind(UpperOrDigit),
        Grp(1, Cat(<<Rep(Ch(Upper), 2, 2), Rep(Ch(Digit), 3, 4)>>)),
        NotAhead(UpperOrDigit)>>)

\* AIRLINE_CODES
AIRLINE_CODES ==
  {<<"C","X">>, <<"S","Q">>, <<"M","H">>, <<"T","R">>, <<"3","K">>, <<"5","J">>, <<"P","R">>,
   <<"A","K">>, <<"F","D">>, <<"V","J">>, <<"Q","H">>, <<"V","N">>, <<"B","L">>}

\* airline_domains of is_potential_flight_email
FilterAirlineDomains ==
  {<<"a","i","r","a","s","i","a",".","c","o","m">>, <<"v","i","e","t","n","a","m","a","i","r","l","i","n","e","s",".","c","o","m">>, <<"u","n","i","t","e","d",".","c","o","m">>, <<"d","e","l","t","a",".","c","o","m">>,
   <<"a","a",".","c","o","m">>, <<"e","m","i","r","a","t","e","s",".","c","o","m">>, <<"k","l","m",".","c","o","m">>, <<"l","u","f","t","h","a","n","s","a",".","c","o","m">>}

\* flight_subject_indicators
FlightSubjectIndicators ==
  {<<"f","l","i","g","h","t"," ","c","o","n","f","i","r","m","a","t","i","o","n">>, <<"b","o","o","k","i","n","g"," ","c","o","n","f","i","r","m","a","t","i","o","n">>, <<"e","-","t","i","c","k","e","t">>,
   <<"c","h","e","c","k","-","i","n">>, <<"b","o","a","r","d","i","n","g"," ","p","a","s","s">>, <<"f","l","i","g","h","t"," ","i","t","i","n","e","r","a","r","y">>,
   <<"t","r","a","v","e","l"," ","c","o","n","f","i","r","m","a","t","i","o","n">>, <<"f","l","i","g","h","t"," ","r","e","c","e","i","p","t">>}

\* exclude_keywords
ExcludeKeywords ==
  {<<"a","i","r","b","n","b">>, <<"b","o","o","k","i","n","g",".","c","o","m">>, <<"h","o","t","e","l","s",".","c","o","m">>, <<"e","x","p","e","d","i","a">>,
   <<"r","e","s","e","r","v","a","t","i","o","n"," ","a","t">>, <<"h","o","t","e","l">>, <<"a","p","a","r","t","m","e","n","t">>}

\* flight_number_pattern = \b[A-Z]{2}\d{3,4}\b
SubjectFlightNumberPattern ==
  Cat(<<WordB, Rep(Ch(Upper), 2, 2), Rep(Ch(Digit), 3, 4), WordB>>)

\* is_potential_flight_email with the exclusion keywords looked at after the
\* sender and the strong indicators, not before
is_potential_exclusions_last(subject, body, from_address) ==
  LET subject_lower == StrLower(subject)
      from_lower    == StrLower(from_address)
  IN IF \E domain \in FilterAirlineDomains : Contains(from_lower, domain) THEN TRUE
     ELSE IF \E indicator \in FlightSubjectIndicators : Contains(subject_lower, indicator) THEN TRUE
     ELSE IF \E excl \in ExcludeKeywords : Contains(subject_lower, excl) THEN FALSE
     ELSE IF Found(Search(SubjectFlightNumberPattern, subject)) THEN TRUE
     ELSE FALSE

\* EmailFilter.is_potential_flight_email(subject, body, from_address)
is_potential_flight_email(subject, body, from_address) ==
  LET subject_lower == StrLower(subject)
      from_lower    == StrLower(from_address)
  IN IF \E excl \in ExcludeKeywords : Contains(subject_lower, excl) THEN FALSE
     ELSE IF \E domain \in FilterAirlineDomains : Contains(from_lower, domain) THEN TRUE
     ELSE IF \E indicator \in FlightSubjectIndicators : Contains(subject_lower, indicator) THEN TRUE
     ELSE IF Found(Search(SubjectFlightNumberPattern, subject)) THEN TRUE
     ELSE FALSE

\* the length validate_confirmation_code requires
ConfirmationCodeLen == 6

\* EmailFilter.validate_confirmation_code(code)
validate_confirmation_code(code) ==
  IF code = <<>> \/ Len(code) # ConfirmationCodeLen THEN FALSE
  ELSE LET has_letter      == AnyAlpha(code)
           has_number      == AnyDigit(code)
           is_uppercase    == StrIsUpper(code)
           not_all_letters == ~StrIsAlpha(code)
           not_all_numbers == ~StrIsDigit(code)
       IN has_letter /\ has_number /\ is_uppercase /\ not_all_letters /\ not_all_numbers

\* ^([A-Z]{2})(\d{3,4})$
ValidFlightNumberPattern ==
  Cat(<<Bol, Grp(1, Rep(Ch(Upper), 2, 2)), Grp(2, Rep(Ch(Digit), 3, 4)), Eol>>)

\* the lengths validate_flight_number allows
FlightNumberMinLen == 5

FlightNumberMaxLen == 6

\* EmailFilter.validate_flight_number(number)
validate_flight_number(number) ==
  IF number = <<>> \/ Len(number) < FlightNumberMinLen \/ Len(number) > FlightNumberMaxLen
  THEN FALSE
  ELSE LET match == MatchAtStart(ValidFlightNumberPattern, number)
       IN IF ~Found(match) THEN FALSE
          ELSE LET airline_code == Group(number, match, 1)
               IN IF airline_code \notin AIRLINE_CODES THEN FALSE ELSE TRUE

\* the distance, in characters, in which the word "flight" is looked for
ContextWindow == 50

\* context_pattern =
\*   .{0,50}(?i)flight.{0,50}<flight_num>|<flight_num>.{0,50}(?i)flight.{0,50}
\* where the interpreter accepts a global flag in the middle of a pattern, the
\* flag holds for the whole pattern
ContextPattern(flight_num) ==
  IgnoreCase(
    Alt(<<Cat(<<Rep(Dot, 0, ContextWindow), Lit(<<"f","l","i","g","h","t">>),
                Rep(Dot, 0, ContextWindow), Lit(flight_num)>>),
          Cat(<<Lit(flight_num), Rep(Dot, 0, ContextWindow),
                Lit(<<"f","l","i","g","h","t">>), Rep(Dot, 0, ContextWindow)>>)>>))

\* confidence is counted in tenths: 0.4 is 4, 0.2 is 2, 0.6 is 6, 1.0 is 10
ConfirmationCodeScore == 4

FlightNumberScore == 4

ContextScore == 2

ConfidenceThreshold == 6

ConfidenceCap == 10

Min(a, b) == IF a <= b THEN a ELSE b

NoBooking ==
  [kind |-> "none", confirmation_code |-> <<>>, flight_numbers |-> <<>>, confidence |-> 0]

\* re.error raised by re.search(context_pattern, ...)
BookingError ==
  [kind |-> "raise", confirmation_code |-> <<>>, flight_numbers |-> <<>>, confidence |-> 0]

\* confirmation_codes of extract_booking_details
confirmation_codes(full_text) ==
  SelectSeq(FindAll(ConfirmationCodePattern, full_text), validate_confirmation_code)

\* flight_numbers of extract_booking_details
flight_numbers(full_text) ==
  SelectSeq(FindAll(FlightNumberPattern, full_text), validate_flight_number)

\* context_found that looks for the word alone, next to a flight number or not
context_word_found(fns, full_text) == Contains(StrLower(full_text), <<"f","l","i","g","h","t">>)

\* the loop over flight_numbers: TRUE iff re.search(context_pattern, full_text)
\* finds a match for some flight number (the loop breaks at the first)
context_found(fns, full_text) ==
  \E k \in 1..Len(fns) : Found(Search(ContextPattern(fns[k]), full_text))

\* The scoring part of extract_booking_details, on the full text and the two
\* validated lists. flags_error says whether the interpreter rejects a global
\* flag that is not at the start of a pattern (re.error from Python 3.11 on,
\* a DeprecationWarning before).
score_booking(full_text, codes, fns, flags_error) ==
  LET base == (IF codes # <<>> THEN ConfirmationCodeScore ELSE 0)
              + (IF fns # <<>> THEN FlightNumberScore ELSE 0)
  IN IF codes = <<>> /\ fns = <<>> THEN NoBooking
     ELSE IF fns # <<>> /\ flags_error THEN BookingError
     ELSE LET confidence == base + (IF context_found(fns, full_text) THEN ContextScore ELSE 0)
          IN IF confidence >= ConfidenceThreshold
             THEN [kind |-> "match",
                   confirmation_code |-> IF codes # <<>> THEN codes[1] ELSE <<>>,
                   flight_numbers |-> fns,
                   confidence |-> Min(ConfidenceCap, confidence)]
             ELSE NoBooking

\* EmailFilter.extract_booking_details(subject, body). The full text and the
\* two lists are bound once, as the code's local variables are.
extract_booking_details(subject, body, flags_error) ==
  CHOOSE r \in UNION { { score_booking(t, c, f, flags_error) :
                           c \in {confirmation_codes(t)}, f \in {flight_numbers(t)} } :
                         t \in {subject \o <<"\n">> \o body} } : TRUE

\* ------------------------------------------------------------------------
\* The raw emails the filtering pipeline is run on
\* ------------------------------------------------------------------------

Email(id, from, subject, body) == [id |-> id, from |-> from, subject |-> subject, body |-> body]

RawEmails ==
  << \* exclusion keyword in the subject, sender at booking.com, a flight-number token
     Email(1, <<"n","o","r","e","p","l","y","@","b","o","o","k","i","n","g",".","c","o","m">>, <<"Y","o","u","r"," ","h","o","t","e","l"," ","r","e","s","e","r","v","a","t","i","o","n"," ","V","J","1","2","3">>,
           <<"B","o","o","k","i","n","g"," ","A","B","C","1","2","3"," ","f","o","r"," ","y","o","u","r"," ","f","l","i","g","h","t"," ","V","J","1","2","3">>),
     \* exclusion keyword, sender on the airline allow-list, strong indicator
     Email(2, <<"d","e","a","l","s","@","a","i","r","a","s","i","a",".","c","o","m">>, <<"H","o","t","e","l"," ","a","n","d"," ","f","l","i","g","h","t"," ","c","o","n","f","i","r","m","a","t","i","o","n">>,
           <<"C","o","d","e"," ","A","B","C","1","2","3"," ","y","o","u","r"," ","f","l","i","g","h","t"," ","V","J","1","2","3">>),
     \* strong indicator; confirmation code, flight number and context
     Email(3, <<"a","@","e","x","a","m","p","l","e",".","c","o","m">>, <<"F","l","i","g","h","t"," ","c","o","n","f","i","r","m","a","t","i","o","n">>,
           <<"C","o","d","e"," ","A","B","C","1","2","3"," ","y","o","u","r"," ","f","l","i","g","h","t"," ","V","J","1","2","3"," ","a","n","d"," ","y","o","u","r"," ","f","l","i","g","h","t"," ","C","X","4","5","6","7">>),
     \* no signal for the classifier, although the body holds a booking
     Email(4, <<"a","@","e","x","a","m","p","l","e",".","c","o","m">>, <<"H","e","l","l","o">>,
           <<"C","o","d","e"," ","A","B","C","1","2","3"," ","y","o","u","r"," ","f","l","i","g","h","t"," ","V","J","1","2","3">>),
     \* airline sender, nothing to extract
     Email(5, <<"i","n","f","o","@","a","a",".","c","o","m">>, <<"W","e","l","c","o","m","e">>, <<"T","h","a","n","k","s"," ","f","o","r"," ","j","o","i","n","i","n","g">>),
     \* flight number in the subject, no code and no context
     Email(6, <<"a","@","e","x","a","m","p","l","e",".","c","o","m">>, <<"V","J","1","2","3"," ","b","o","o","k","e","d">>, <<"S","e","e"," ","y","o","u"," ","o","n"," ","b","o","a","r","d">>),
     \* strong indicator, a confirmation code alone
     Email(7, <<"a","@","e","x","a","m","p","l","e",".","c","o","m">>, <<"Y","o","u","r"," ","E","-","T","i","c","k","e","t">>, <<"R","e","f","e","r","e","n","c","e"," ","A","B","C","1","2","3"," ","f","o","r"," ","t","h","e"," ","f","l","i","g","h","t">>),
     \* strong indicator, a flight number with context and no code
     Email(8, <<"a","@","e","x","a","m","p","l","e",".","c","o","m">>, <<"B","o","a","r","d","i","n","g"," ","p","a","s","s">>, <<"Y","o","u","r"," ","f","l","i","g","h","t"," ","C","X","4","5","6","7"," ","i","s"," ","o","n"," ","t","i","m","e">>),
     \* strong indicator; two flight numbers, the word "flight" more than 50
     \* characters after the first and next to the second, no code
     Email(9, <<"a","@","e","x","a","m","p","l","e",".","c","o","m">>, <<"B","o","a","r","d","i","n","g"," ","p","a","s","s">>,
           <<"V","J","1","2","3"," ","d","e","p","a","r","t","s"," ","a","t"," ","n","i","n","e"," ","i","n"," ","t","h","e"," ","m","o","r","n","i","n","g"," ","f","r","o","m"," ","t","h","e"," ","m","a","i","n"," ","t","e","r","m","i","n","a","l"," ","g","a","t","e","."," ","f","l","i","g","h","t"," ","C","X","4","5","6">>) >>

EmailIdx == 1..Len(RawEmails)

\* ------------------------------------------------------------------------
\* State
\* ------------------------------------------------------------------------

VARIABLES
  flagsError,       \* the interpreter rejects a global flag in mid-pattern
  processed_ids,    \* EmailFetcher.processed_ids
  new_emails,       \* fetch_and_filter_emails: the emails still to look at
  idx,              \* fetch_and_filter_emails: position in new_emails
  filtered_emails,  \* fetch_and_filter_emails: the result being built
  fpc,              \* fetch_and_filter_emails: "idle", "classify" or "extract"
  calls,            \* every call made to the EmailFilter, in order
  returned,         \* the lists fetch_and_filter_emails returned, in order
  fetched,          \* how many emails were handed to fetch_and_filter_emails
  procOutcome       \* process_emails: "none", "returned" or "TypeError"

filterVars ==
  <<flagsError, processed_ids, new_emails, idx, filtered_emails, fpc, calls,
    returned, fetched, procOutcome>>

\* how many fetch_and_filter_emails calls, and how many emails in all, a run makes
MaxFetchCalls == 2

MaxFetched == 3

\* the lists of at most n emails (as positions in RawEmails)
Batches(n) == UNION {[1..k -> EmailIdx] : k \in 0..n}

\* the results of the EmailFilter on each raw email, computed once and kept
\* as tables of <<email, result>> and <<email, flagsError, result>>
PotentialTable ==
  {<<e, is_potential_flight_email(RawEmails[e].subject, RawEmails[e].body, RawEmails[e].from)>> :
     e \in EmailIdx}

BookingTable ==
  {<<e, f, extract_booking_details(RawEmails[e].subject, RawEmails[e].body, f)>> :
     e \in EmailIdx, f \in BOOLEAN}

PotentialOf(e) == (CHOOSE row \in PotentialTable : row[1] = e)[2]

BookingOf(e, f) == (CHOOSE row \in BookingTable : row[1] = e /\ row[2] = f)[3]

IsPotentialCall(e, ok) ==
  [fn |-> "is_potential_flight_email", e |-> e, ok |-> ok, res |-> NoBooking]

ExtractCall(e, res) ==
  [fn |-> "extract_booking_details", e |-> e, ok |-> res.kind # "raise", res |-> res]

FilterInit ==
  /\ flagsError \in BOOLEAN
  /\ processed_ids = {}
  /\ new_emails = <<>>
  /\ idx = 1
  /\ filtered_emails = <<>>
  /\ fpc = "idle"
  /\ calls = <<>>
  /\ returned = <<>>
  /\ fetched = 0
  /\ procOutcome = "none"

\* ------------------------------------------------------------------------
\* src/src/email_fetcher.py: EmailFetcher.fetch_and_filter_emails
\* ------------------------------------------------------------------------

\* lines 21-27: a call starts; the emails whose id is cached are skipped
FetchStart ==
  /\ fpc = "idle"
  /\ Len(returned) < MaxFetchCalls
  /\ \E raw_emails \in Batches(MaxFetched - fetched) :
       /\ new_emails' = SelectSeq(raw_emails, LAMBDA e : RawEmails[e].id \notin processed_ids)
       /\ fetched' = fetched + Len(raw_emails)
  /\ idx' = 1
  /\ filtered_emails' = <<>>
  /\ fpc' = "classify"
  /\ UNCHANGED <<flagsError, processed_ids, calls, returned, procOutcome>>

\* FetchGate without the test of line 40: extract_booking_details for every email
FetchGateOpen(is_potential) == TRUE

\* whether the fetcher goes on to extract_booking_details for an email
FetchGate(is_potential) == is_potential

\* lines 31-40, 57: is_potential_flight_email on the next email; when it is
\* false the id is cached and the loop goes on
FetchClassify ==
  /\ fpc = "classify"
  /\ idx <= Len(new_emails)
  /\ LET e            == new_emails[idx]
         is_potential == PotentialOf(e)
     IN /\ calls' = Append(calls, IsPotentialCall(e, is_potential))
        /\ IF FetchGate(is_potential)
           THEN /\ fpc' = "extract"
                /\ UNCHANGED <<idx, processed_ids>>
           ELSE /\ processed_ids' = processed_ids \cup {RawEmails[e].id}
                /\ idx' = idx + 1
                /\ UNCHANGED fpc
  /\ UNCHANGED <<flagsError, new_emails, filtered_emails, returned, fetched, procOutcome>>

\* lines 43-61: extract_booking_details on a potential email; a match is
\* appended and the id cached; an exception is caught, nothing is cached
FetchExtract ==
  /\ fpc = "extract"
  /\ LET e               == new_emails[idx]
         booking_details == BookingOf(e, flagsError)
     IN /\ calls' = Append(calls, ExtractCall(e, booking_details))
        /\ filtered_emails' =
             IF booking_details.kind = "match" /\ booking_details.confidence >= ConfidenceThreshold
             THEN Append(filtered_emails, [e |-> e, booking_details |-> booking_details])
             ELSE filtered_emails
        /\ processed_ids' =
             IF booking_details.kind = "raise" THEN processed_ids
             ELSE processed_ids \cup {RawEmails[e].id}
  /\ idx' = idx + 1
  /\ fpc' = "classify"
  /\ UNCHANGED <<flagsError, new_emails, returned, fetched, procOutcome>>

\* lines 63-64: the loop is over, the filtered emails are returned
FetchReturn ==
  /\ fpc = "classify"
  /\ idx > Len(new_emails)
  /\ returned' = Append(returned, filtered_emails)
  /\ fpc' = "idle"
  /\ UNCHANGED <<flagsError, processed_ids, new_emails, idx, filtered_emails, calls,
                 fetched, procOutcome>>

\* ------------------------------------------------------------------------
\* src/src/email_processor.py: process_emails
\* ------------------------------------------------------------------------

\* lines 19-25 call EmailFilter.is_potential_flight_email(subject, body) with
\* two arguments where the function takes three: the call raises TypeError
\* before the classifier runs, for the first message of the list. With no
\* message the comprehension and the loop of lines 32-53 have nothing to do
\* and [] is returned. No call of the EmailFilter is ever completed.
process_emails(messages) ==
  IF messages = <<>> THEN "returned" ELSE "TypeError"

ProcessEmails ==
  /\ fpc = "idle"
  /\ procOutcome = "none"
  /\ \E messages \in Batches(MaxFetched) : procOutcome' = process_emails(messages)
  /\ UNCHANGED <<flagsError, processed_ids, new_emails, idx, filtered_emails, fpc, calls,
                 returned, fetched>>

\* ------------------------------------------------------------------------
\* src/src/main.py: deduplicate_flights
\* ------------------------------------------------------------------------

\* A flight dict maps each field to a value: a str, None, or no entry at all
Str(s) == [tag |-> "str", s |-> s]

None == [tag |-> "none", s |-> <<>>]

Missing == [tag |-> "missing", s |-> <<>>]

\* the fields of FlightInfo.to_dict(); the LLM extractor adds "confidence"
FlightFields ==
  {"flight_number", "departure_datetime", "arrival_datetime", "departure_airport",
   "arrival_airport", "confirmation_code", "airline", "confidence"}

\* flight.get(k): None when the key is absent
Get(flight, k) == IF flight[k].tag = "missing" THEN None ELSE flight[k]

\* flight.get(k, ''): '' when the key is absent
GetOr(flight, k) == IF flight[k].tag = "missing" THEN Str(<<>>) ELSE flight[k]

\* the truth value of a str or None
Truthy(v) == v.tag = "str" /\ v.s # <<>>

\* the characters in code-point order, for the comparison of strings
AsciiOrder ==
  <<"\t", "\n", "\r", " ", "!", "#", "$", "(", ")", ",", "-", ".", "/">>
  \o <<"0","1","2","3","4","5","6","7","8","9">> \o <<":", ">", "@">>
  \o UpperSeq \o <<"_">> \o LowerSeq

Ord(ch) == CHOOSE i \in DOMAIN AsciiOrder : AsciiOrder[i] = ch

\* a < b for two strings
StrLess(a, b) ==
  \E i \in 1..(Len(b)) :
    /\ i <= Len(a) + 1
    /\ \A j \in 1..(i - 1) : a[j] = b[j]
    /\ (i = Len(a) + 1 \/ Ord(a[i]) < Ord(b[i]))

\* _count_filled_fields(flight): the values that are not None
CountNotNone(flight) == Cardinality({k \in FlightFields : flight[k].tag = "str"})

_count_filled_fields(flight) == CountNotNone(flight)

\* HasRequired with "and" for the "or" of line 26: a flight is skipped only
\* when it lacks both fields
HasRequiredEither(flight) ==
  Truthy(Get(flight, "flight_number")) \/ Truthy(Get(flight, "departure_datetime"))

\* line 26: the fields a flight needs to be kept
HasRequired(flight) ==
  Truthy(Get(flight, "flight_number")) /\ Truthy(Get(flight, "departure_datetime"))

\* lines 27-38: the key of a flight that has the required fields
DedupKey(flight) ==
  <<Get(flight, "flight_number"),
    Str(BeforeFirstT(GetOr(flight, "departure_datetime").s)),
    GetOr(flight, "departure_airport"),
    GetOr(flight, "arrival_airport")>>

\* Replaces with >= for >: a flight replaces also an entry that is as filled
ReplacesOnTie(flight, stored) == _count_filled_fields(flight) >= _count_filled_fields(stored)

\* line 41: does the flight replace the entry stored under its key
Replaces(flight, stored) == _count_filled_fields(flight) > _count_filled_fields(stored)

\* lines 19-42: unique_flights, a dict in insertion order, as a sequence of
\* [key, flight] entries; an entry that is replaced keeps its place
RECURSIVE UniqueFlights(_, _)
UniqueFlights(flights, unique) ==
  IF flights = <<>> THEN unique
  ELSE LET flight == Head(flights)
           at     == {i \in DOMAIN unique : unique[i].key = DedupKey(flight)}
       IN IF ~HasRequired(flight) THEN UniqueFlights(Tail(flights), unique)
          ELSE IF at = {}
               THEN UniqueFlights(Tail(flights),
                                  Append(unique, [key |-> DedupKey(flight), flight |-> flight]))
          ELSE LET i == CHOOSE i \in at : TRUE
               IN IF Replaces(flight, unique[i].flight)
                  THEN UniqueFlights(Tail(flights), [unique EXCEPT ![i].flight = flight])
                  ELSE UniqueFlights(Tail(flights), unique)

\* line 47: the sort key: x.get('departure_datetime', '') or ''
SortKey(flight) ==
  LET v == GetOr(flight, "departure_datetime")
  IN IF Truthy(v) THEN v.s ELSE <<>>

\* InsertSorted for a sort that is not stable: a flight goes before the
\* flights of the same key
RECURSIVE InsertSortedUnstable(_, _)
InsertSortedUnstable(sorted, flight) ==
  IF sorted = <<>> THEN <<flight>>
  ELSE IF ~StrLess(SortKey(Head(sorted)), SortKey(flight))
       THEN <<flight>> \o sorted
       ELSE <<Head(sorted)>> \o InsertSortedUnstable(Tail(sorted), flight)

\* sorted() is stable: a flight goes after every flight whose key is not greater
RECURSIVE InsertSorted(_, _)
InsertSorted(sorted, flight) ==
  IF sorted = <<>> THEN <<flight>>
  ELSE IF StrLess(SortKey(flight), SortKey(Head(sorted)))
       THEN <<flight>> \o sorted
       ELSE <<Head(sorted)>> \o InsertSorted(Tail(sorted), flight)

\* SortFlights without the sort: the values in the order of the dict
SortFlightsInsertionOrder(flights, sorted) == sorted \o flights

\* lines 45-48: sorted(unique_flights.values(), key=...)
RECURSIVE SortFlights(_, _)
SortFlights(flights, sorted) ==
  IF flights = <<>> THEN sorted
  ELSE SortFlights(Tail(flights), InsertSorted(sorted, Head(flights)))

\* deduplicate_flights(flights)
deduplicate_flights(flights) ==
  LET unique == UniqueFlights(flights, <<>>)
  IN SortFlights([i \in DOMAIN unique |-> unique[i].flight], <<>>)

\* ------------------------------------------------------------------------
\* The flight dicts deduplicate_flights is run on
\* ------------------------------------------------------------------------

Flight(fn, dep, depA, conf) ==
  [flight_number |-> fn, departure_datetime |-> dep, arrival_datetime |-> Str(<<>>),
   departure_airport |-> depA, arrival_airport |-> Str(<<"H","A","N">>),
   confirmation_code |-> conf, airline |-> Str(<<"V","i","e","t","J","e","t"," ","A","i","r">>), confidence |-> Missing]

\* flights that have the required fields: one flight number, two departure
\* datetimes of one day, two departure airports, three confirmation codes
KeyedFlights ==
  {Flight(Str(<<"V","J","1","2","3">>), dep, depA, conf) :
     dep \in {Str(<<"2","0","2","6","-","0","3","-","1","2">>), Str(<<"2","0","2","6","-","0","3","-","1","2","T","1","0",":","0","0">>)},
     depA \in {Str(<<>>), Str(<<"S","G","N">>)},
     conf \in {None, Str(<<>>), Str(<<"A","B","C","1","2","3">>)}}

\* flights whose flight_number or departure_datetime is empty or missing
UnkeyedFlights ==
  {Flight(fn, Str(<<"2","0","2","6","-","0","3","-","1","2">>), Str(<<"S","G","N">>), Str(<<"A","B","C","1","2","3">>)) : fn \in {Missing, Str(<<>>)}}
  \cup {Flight(Str(<<"V","J","1","2","3">>), dep, Str(<<"S","G","N">>), Str(<<"A","B","C","1","2","3">>)) : dep \in {None, Str(<<>>)}}

FlightDicts == KeyedFlights \cup UnkeyedFlights

\* how many flights a list given to deduplicate_flights holds at most
MaxFlights == 3

VARIABLES
  flight_list, \* the list given to deduplicate_flights
  deduped,     \* deduplicate_flights(flight_list)
  deduped2,    \* deduplicate_flights(deduped)
  dpc          \* "input", "once" or "twice"

dedupVars == <<flight_list, deduped, deduped2, dpc>>

DedupOff == flight_list = <<>> /\ deduped = <<>> /\ deduped2 = <<>> /\ dpc = "off"

DedupInit ==
  /\ flight_list \in UNION {[1..n -> FlightDicts] : n \in 0..MaxFlights}
  /\ deduped = <<>>
  /\ deduped2 = <<>>
  /\ dpc = "input"

\* deduplicate_flights(flight_list)
Deduplicate ==
  /\ dpc = "input"
  /\ deduped' = deduplicate_flights(flight_list)
  /\ dpc' = "once"
  /\ UNCHANGED <<flight_list, deduped2>>

\* deduplicate_flights on its own output
DeduplicateAgain ==
  /\ dpc = "once"
  /\ deduped2' = deduplicate_flights(deduped)
  /\ dpc' = "twice"
  /\ UNCHANGED <<flight_list, deduped>>

\* ------------------------------------------------------------------------
\* The validators of src/src/email_filter.py, applied to arbitrary strings
\* ------------------------------------------------------------------------

\* the characters the strings given to the validators are made of: two upper-case
\* letters, a lower-case letter, a digit, a character that is neither, a newline
CodeChars == {"V", "J", "a", "1", "-", "\n"}

\* how long a string given to a validator is at most
MaxCodeLen == 6

VARIABLES
  candidate,  \* the string given to the validator
  verdict     \* [fn |-> the validator applied, ok |-> its result]

validateVars == <<candidate, verdict>>

NoVerdict == [fn |-> "none", ok |-> FALSE]

ValidateOff == candidate = <<>> /\ verdict = NoVerdict

ValidateInit ==
  /\ candidate \in UNION {[1..n -> CodeChars] : n \in 0..MaxCodeLen}
  /\ verdict = NoVerdict

ValidateConfirmationCode ==
  /\ verdict = NoVerdict
  /\ verdict' = [fn |-> "validate_confirmation_code", ok |-> validate_confirmation_code(candidate)]
  /\ UNCHANGED candidate

ValidateFlightNumber ==
  /\ verdict = NoVerdict
  /\ verdict' = [fn |-> "validate_flight_number", ok |-> validate_flight_number(candidate)]
  /\ UNCHANGED candidate

\* ------------------------------------------------------------------------
\* src/src/parsers/flight_parser.py
\* ------------------------------------------------------------------------

\* airline_keywords of _detect_airline, in the order of the dict
AirlineKeywords ==
  << [airline |-> <<"V","i","e","t","J","e","t"," ","A","i","r">>, keywords |-> <<<<"v","i","e","t","j","e","t">>, <<"v","j","e","t"," ","a","i","r">>>>],
     [airline |-> <<"A","i","r","A","s","i","a">>, keywords |-> <<<<"a","i","r","a","s","i","a">>, <<"a","i","r"," ","a","s","i","a">>>>],
     [airline |-> <<"V","i","e","t","n","a","m"," ","A","i","r","l","i","n","e","s">>, keywords |-> <<<<"v","i","e","t","n","a","m"," ","a","i","r","l","i","n","e","s">>, <<"v","i","e","t","n","a","m","a","i","r","l","i","n","e","s">>>>],
     [airline |-> <<"C","e","b","u"," ","P","a","c","i","f","i","c">>, keywords |-> <<<<"c","e","b","u"," ","p","a","c","i","f","i","c">>, <<"c","e","b","u"," ","p","a","c","i","f","i","c"," ","a","i","r">>>>],
     [airline |-> <<"L","A","T","A","M"," ","A","i","r","l","i","n","e","s">>, keywords |-> <<<<"l","a","t","a","m"," ","a","i","r","l","i","n","e","s">>, <<"l","a","t","a","m">>>>],
     [airline |-> <<"D","e","l","t","a"," ","A","i","r"," ","L","i","n","e","s">>, keywords |-> <<<<"d","e","l","t","a"," ","a","i","r"," ","l","i","n","e","s">>, <<"d","e","l","t","a"," ","a","i","r","l","i","n","e","s">>>>],
     [airline |-> <<"U","n","i","t","e","d"," ","A","i","r","l","i","n","e","s">>, keywords |-> <<<<"u","n","i","t","e","d"," ","a","i","r","l","i","n","e","s">>>>],
     [airline |-> <<"A","m","e","r","i","c","a","n"," ","A","i","r","l","i","n","e","s">>, keywords |-> <<<<"a","m","e","r","i","c","a","n"," ","a","i","r","l","i","n","e","s">>>>],
     [airline |-> <<"S","o","u","t","h","w","e","s","t"," ","A","i","r","l","i","n","e","s">>, keywords |-> <<<<"s","o","u","t","h","w","e","s","t"," ","a","i","r","l","i","n","e","s">>>>],
     [airline |-> <<"J","e","t","B","l","u","e">>, keywords |-> <<<<"j","e","t","b","l","u","e">>, <<"j","e","t"," ","b","l","u","e">>>>],
     [airline |-> <<"A","v","i","a","n","c","a">>, keywords |-> <<<<"a","v","i","a","n","c","a">>>>],
     [airline |-> <<"I","b","e","r","i","a">>, keywords |-> <<<<"i","b","e","r","i","a">>>>],
     [airline |-> <<"T","A","P"," ","A","i","r"," ","P","o","r","t","u","g","a","l">>, keywords |-> <<<<"t","a","p"," ","a","i","r"," ","p","o","r","t","u","g","a","l">>, <<"t","a","p"," ","p","o","r","t","u","g","a","l">>>>],
     [airline |-> <<"R","y","a","n","a","i","r">>, keywords |-> <<<<"r","y","a","n","a","i","r">>>>],
     [airline |-> <<"e","a","s","y","J","e","t">>, keywords |-> <<<<"e","a","s","y","j","e","t">>, <<"e","a","s","y"," ","j","e","t">>>>],
     [airline |-> <<"C","o","p","a"," ","A","i","r","l","i","n","e","s">>, keywords |-> <<<<"c","o","p","a"," ","a","i","r","l","i","n","e","s">>, <<"c","o","p","a"," ","a","i","r">>>>],
     [airline |-> <<"A","e","r","o","M","e","x","i","c","o">>, keywords |-> <<<<"a","e","r","o","m","e","x","i","c","o">>>>],
     [airline |-> <<"A","e","r","o","l","i","n","e","a","s"," ","A","r","g","e","n","t","i","n","a","s">>, keywords |-> <<<<"a","e","r","o","l","i","n","e","a","s"," ","a","r","g","e","n","t","i","n","a","s">>>>],
     [airline |-> <<"A","z","u","l">>, keywords |-> <<<<"a","z","u","l"," ","l","i","n","h","a","s">>, <<"a","z","u","l"," ","l","i","n","h","a","s"," ","a","e","r","e","a","s">>>>],
     [airline |-> <<"G","O","L">>, keywords |-> <<<<"g","o","l"," ","l","i","n","h","a","s">>, <<"g","o","l"," ","l","i","n","h","a","s"," ","a","e","r","e","a","s">>>>] >>

\* airline_domains of _detect_airline, in the order of the dict
AirlineDomains ==
  << [domain |-> <<"v","i","e","t","j","e","t","a","i","r",".","c","o","m">>, airline |-> <<"V","i","e","t","J","e","t"," ","A","i","r">>],
     [domain |-> <<"a","i","r","a","s","i","a",".","c","o","m">>, airline |-> <<"A","i","r","A","s","i","a">>],
     [domain |-> <<"v","i","e","t","n","a","m","a","i","r","l","i","n","e","s",".","c","o","m">>, airline |-> <<"V","i","e","t","n","a","m"," ","A","i","r","l","i","n","e","s">>],
     [domain |-> <<"c","e","b","u","-","p","a","c","i","f","i","c",".","c","o","m">>, airline |-> <<"C","e","b","u"," ","P","a","c","i","f","i","c">>],
     [domain |-> <<"c","e","b","u","p","a","c","i","f","i","c",".","c","o","m">>, airline |-> <<"C","e","b","u"," ","P","a","c","i","f","i","c">>],
     [domain |-> <<"m","y","c","e","b","u","p","a","c","i","f","i","c",".","c","o","m">>, airline |-> <<"C","e","b","u"," ","P","a","c","i","f","i","c">>],
     [domain |-> <<"l","a","t","a","m",".","c","o","m">>, airline |-> <<"L","A","T","A","M"," ","A","i","r","l","i","n","e","s">>],
     [domain |-> <<"d","e","l","t","a",".","c","o","m">>, airline |-> <<"D","e","l","t","a"," ","A","i","r"," ","L","i","n","e","s">>],
     [domain |-> <<"o",".","d","e","l","t","a",".","c","o","m">>, airline |-> <<"D","e","l","t","a"," ","A","i","r"," ","L","i","n","e","s">>],
     [domain |-> <<"u","n","i","t","e","d",".","c","o","m">>, airline |-> <<"U","n","i","t","e","d"," ","A","i","r","l","i","n","e","s">>],
     [domain |-> <<"a","a",".","c","o","m">>, airline |-> <<"A","m","e","r","i","c","a","n"," ","A","i","r","l","i","n","e","s">>],
     [domain |-> <<"s","o","u","t","h","w","e","s","t",".","c","o","m">>, airline |-> <<"S","o","u","t","h","w","e","s","t"," ","A","i","r","l","i","n","e","s">>],
     [domain |-> <<"j","e","t","b","l","u","e",".","c","o","m">>, airline |-> <<"J","e","t","B","l","u","e">>],
     [domain |-> <<"a","v","i","a","n","c","a",".","c","o","m">>, airline |-> <<"A","v","i","a","n","c","a">>],
     [domain |-> <<"i","b","e","r","i","a",".","c","o","m">>, airline |-> <<"I","b","e","r","i","a">>],
     [domain |-> <<"t","a","p",".","p","t">>, airline |-> <<"T","A","P"," ","A","i","r"," ","P","o","r","t","u","g","a","l">>],
     [domain |-> <<"r","y","a","n","a","i","r",".","c","o","m">>, airline |-> <<"R","y","a","n","a","i","r">>],
     [domain |-> <<"e","a","s","y","j","e","t",".","c","o","m">>, airline |-> <<"e","a","s","y","J","e","t">>],
     [domain |-> <<"c","o","p","a","a","i","r",".","c","o","m">>, airline |-> <<"C","o","p","a"," ","A","i","r","l","i","n","e","s">>],
     [domain |-> <<"a","e","r","o","m","e","x","i","c","o",".","c","o","m">>, airline |-> <<"A","e","r","o","M","e","x","i","c","o">>],
     [domain |-> <<"a","e","r","o","l","i","n","e","a","s",".","c","o","m",".","a","r">>, airline |-> <<"A","e","r","o","l","i","n","e","a","s"," ","A","r","g","e","n","t","i","n","a","s">>],
     [domain |-> <<"v","o","e","a","z","u","l",".","c","o","m",".","b","r">>, airline |-> <<"A","z","u","l">>],
     [domain |-> <<"a","z","u","l",".","c","o","m",".","b","r">>, airline |-> <<"A","z","u","l">>],
     [domain |-> <<"v","o","e","g","o","l",".","c","o","m",".","b","r">>, airline |-> <<"G","O","L">>],
     [domain |-> <<"g","o","l",".","c","o","m",".","b","r">>, airline |-> <<"G","O","L">>] >>

VietJetAir == <<"V","i","e","t","J","e","t"," ","A","i","r">>

UnknownAirline == <<"U","n","k","n","o","w","n"," ","A","i","r","l","i","n","e">>

\* the two loops of _detect_airline on the lower-cased texts
detect_airline_in(combined_text, from_lower) ==
  LET byKeyword == {i \in DOMAIN AirlineKeywords :
                      \E k \in DOMAIN AirlineKeywords[i].keywords :
                        Contains(combined_text, AirlineKeywords[i].keywords[k])}
      byDomain  == {i \in DOMAIN AirlineDomains : Contains(from_lower, AirlineDomains[i].domain)}
  IN IF byKeyword # {} THEN AirlineKeywords[MinOf(byKeyword)].airline
     ELSE IF byDomain # {} THEN AirlineDomains[MinOf(byDomain)].airline
     ELSE UnknownAirline

\* _detect_airline(subject, body, from_addr)
_detect_airline(subject, body, from_addr) ==
  CHOOSE airline \in {detect_airline_in(t, f) :
                        t \in {StrLower(subject \o <<" ">> \o body)},
                        f \in {StrLower(from_addr)}} : TRUE

\* FlightInfo, and None for "no FlightInfo"; each field is a str
FlightInfo(flight_number, departure_datetime, arrival_datetime, departure_airport, arrival_airport, confirmation_code, airline) ==
  [tag |-> "FlightInfo", flight_number |-> flight_number,
   departure_datetime |-> departure_datetime, arrival_datetime |-> arrival_datetime,
   departure_airport |-> departure_airport, arrival_airport |-> arrival_airport,
   confirmation_code |-> confirmation_code, airline |-> airline]

NoFlightInfo == [tag |-> "none"]

\* x or ''
OrEmpty(v) == IF Truthy(v) THEN v ELSE Str(<<>>)

\* "for pattern in patterns: match = re.search(pattern, text); if match: break":
\* the match of the first pattern that matches, as <<match>>, or <<>>
FirstMatchIn(patterns, text) ==
  LET hits == {k \in DOMAIN patterns : Found(Search(patterns[k], text))}
  IN IF hits = {} THEN <<>> ELSE <<Search(patterns[MinOf(hits)], text)>>

FirstMatch(patterns, text) ==
  CHOOSE m \in {FirstMatchIn(patterns, t) : t \in {text}} : TRUE

\* match.group(n) of an optional match: None when there is no match
GroupOrNone(text, m, n) == IF m = <<>> THEN None ELSE Str(Group(text, m[1], n))

SpaceStar == Star(Ch(Space))

SpacePlus == Plus(Ch(Space))

\* reservation_patterns (used with re.IGNORECASE)
\*   Reservation\s*#?\s*([A-Z0-9]+)
\*   Booking\s*(?:number|#)?\s*([A-Z0-9]+)
reservation_patterns ==
  << IgnoreCase(Cat(<<Lit(<<"R","e","s","e","r","v","a","t","i","o","n">>), SpaceStar, Opt(Ch({"#"})), SpaceStar,
                      Grp(1, Plus(Ch(UpperOrDigit)))>>)),
     IgnoreCase(Cat(<<Lit(<<"B","o","o","k","i","n","g">>), SpaceStar, Opt(Alt(<<Lit(<<"n","u","m","b","e","r">>), Lit(<<"#">>)>>)),
                      SpaceStar, Grp(1, Plus(Ch(UpperOrDigit)))>>)) >>

\* flight_patterns of _parse_vietjet_email (case-sensitive)
\*   Flight\s*(?:No\.|Number)?\s*([A-Z]{2}\s*\d{3,4})
\*   ([A-Z]{2}\s*\d{3,4})
vietjet_flight_patterns ==
  << Cat(<<Lit(<<"F","l","i","g","h","t">>), SpaceStar, Opt(Alt(<<Lit(<<"N","o",".">>), Lit(<<"N","u","m","b","e","r">>)>>)), SpaceStar,
           Grp(1, Cat(<<Rep(Ch(Upper), 2, 2), SpaceStar, Rep(Ch(Digit), 3, 4)>>))>>),
     Grp(1, Cat(<<Rep(Ch(Upper), 2, 2), SpaceStar, Rep(Ch(Digit), 3, 4)>>)) >>

\* airport_patterns of _parse_vietjet_email (used with re.IGNORECASE)
\*   (?:From|Departure):\s*([A-Z]{3})\s+(?:To|Arrival):\s*([A-Z]{3})
\*   ([A-Z]{3})\s*(?:to|->|-)\s*([A-Z]{3})
\*   ([A-Z]{3})[^A-Z]{1,20}([A-Z]{3})
vietjet_airport_patterns ==
  << IgnoreCase(Cat(<<Alt(<<Lit(<<"F","r","o","m">>), Lit(<<"D","e","p","a","r","t","u","r","e">>)>>), Lit(<<":">>), SpaceStar,
                      Grp(1, Rep(Ch(Upper), 3, 3)), SpacePlus,
                      Alt(<<Lit(<<"T","o">>), Lit(<<"A","r","r","i","v","a","l">>)>>), Lit(<<":">>), SpaceStar,
                      Grp(2, Rep(Ch(Upper), 3, 3))>>)),
     IgnoreCase(Cat(<<Grp(1, Rep(Ch(Upper), 3, 3)), SpaceStar,
                      Alt(<<Lit(<<"t","o">>), Lit(<<"-",">">>), Lit(<<"-">>)>>), SpaceStar,
                      Grp(2, Rep(Ch(Upper), 3, 3))>>)),
     IgnoreCase(Cat(<<Grp(1, Rep(Ch(Upper), 3, 3)), Rep(NotCh(Upper), 1, 20),
                      Grp(2, Rep(Ch(Upper), 3, 3))>>)) >>

\* date_patterns of _parse_vietjet_email (case-sensitive)
\*   (?:Date|Departure):\s*(\d{1,2}\s+[A-Za-z]+\s+\d{4})
\*   (\d{1,2}\s+[A-Za-z]+\s+\d{4})
\*   (\d{2}/\d{2}/\d{4})
DayMonthYear ==
  Cat(<<Rep(Ch(Digit), 1, 2), SpacePlus, Plus(Ch(Letter)), SpacePlus, Rep(Ch(Digit), 4, 4)>>)

date_patterns ==
  << Cat(<<Alt(<<Lit(<<"D","a","t","e">>), Lit(<<"D","e","p","a","r","t","u","r","e">>)>>), Lit(<<":">>), SpaceStar, Grp(1, DayMonthYear)>>),
     Grp(1, DayMonthYear),
     Grp(1, Cat(<<Rep(Ch(Digit), 2, 2), Lit(<<"/">>), Rep(Ch(Digit), 2, 2), Lit(<<"/">>),
                  Rep(Ch(Digit), 4, 4)>>)) >>

\* lines 149-155: the flight number, match.group(1).replace(' ', '')
vietjet_flight_number(body) ==
  LET m == FirstMatch(vietjet_flight_patterns, body)
  IN IF m = <<>> THEN None ELSE Str(RemoveSpaces(Group(body, m[1], 1)))

\* lines 188-204 of _parse_vietjet_email, on what the searches found
vietjet_info(confirmation_code, flight_number, airports, departure_date, body) ==
  LET departure_airport == GroupOrNone(body, airports, 1)
      arrival_airport   == GroupOrNone(body, airports, 2)
  IN IF Truthy(flight_number) /\ Truthy(departure_airport) /\ Truthy(arrival_airport)
     THEN FlightInfo(flight_number.s, OrEmpty(departure_date).s, <<>>, departure_airport.s,
                     arrival_airport.s, OrEmpty(confirmation_code).s, VietJetAir)
     ELSE NoFlightInfo

\* _parse_vietjet_email(subject, body)
_parse_vietjet_email(subject, body) ==
  CHOOSE info \in
    {vietjet_info(code, fn, airports, date, body) :
       code \in {GroupOrNone(subject \o <<" ">> \o body,
                             FirstMatch(reservation_patterns, subject \o <<" ">> \o body), 1)},
       fn \in {vietjet_flight_number(body)},
       airports \in {FirstMatch(vietjet_airport_patterns, body)},
       date \in {GroupOrNone(body, FirstMatch(date_patterns, body), 1)}} : TRUE

\* iata_token = (?<![A-Z])(?-i:([A-Z]{3}))(?![A-Z]), as capturing group n
iata_token(n) ==
  Cat(<<NotBehind(Upper), CaseSens(Grp(n, Rep(Ch(Upper), 3, 3))), NotAhead(Upper)>>)

\* ((?-i:[A-Z0-9]{2,3})\s*\d{1,4})
FlightCandidate ==
  Grp(1, Cat(<<CaseSens(Rep(Ch(UpperOrDigit), 2, 3)), SpaceStar, Rep(Ch(Digit), 1, 4)>>))

\* \s*[:#]?\s*
ColonOrHash == Cat(<<SpaceStar, Opt(Ch({":", "#"})), SpaceStar>>)

\* \s*[:\-]?\s*
ColonOrDash == Cat(<<SpaceStar, Opt(Ch({":", "-"})), SpaceStar>>)

\* n[o0]?  and  n[o0]
NoOpt == Cat(<<Lit(<<"n">>), Opt(Ch({"o", "0"}))>>)

No == Cat(<<Lit(<<"n">>), Ch({"o", "0"})>>)

\* flight_patterns of _parse_generic_email (all used with re.IGNORECASE)
generic_flight_patterns ==
  << IgnoreCase(Cat(<<Alt(<<Lit(<<"f","l","i","g","h","t">>),
                            Cat(<<Lit(<<"f","l","i","g","h","t">>), SpacePlus, Lit(<<"n","u","m","b","e","r">>)>>),
                            Lit(<<"v","o","o">>),
                            Cat(<<NoOpt, SpaceStar, Lit(<<"d","e">>), SpaceStar, Lit(<<"v","o","o">>)>>),
                            Cat(<<Lit(<<"n","u","m","e","r","o">>), SpaceStar, Lit(<<"d","o">>), SpaceStar, Lit(<<"v","o","o">>)>>),
                            Lit(<<"v","u","e","l","o">>),
                            Cat(<<Lit(<<"n","u","m","e","r","o">>), SpaceStar, Lit(<<"d","e">>), SpaceStar, Lit(<<"v","u","e","l","o">>)>>),
                            Cat(<<No, SpaceStar, Lit(<<"d","e">>), SpaceStar, Lit(<<"v","u","e","l","o">>)>>)>>),
                      ColonOrHash, FlightCandidate>>)),
     IgnoreCase(Cat(<<Alt(<<Lit(<<"f","l","i","g","h","t">>), Lit(<<"v","o","o">>), Lit(<<"v","u","e","l","o">>)>>),
                      ColonOrHash, FlightCandidate>>)),
     IgnoreCase(Cat(<<WordB, FlightCandidate, WordB, SpaceStar,
                      Alt(<<Lit(<<"t","o">>), Lit(<<"-",">">>), Lit(<<"-">>)>>)>>)) >>

\* (?:[^\n\r]{0,50}?)\(?\s*{iata_token}\s*\)?
NamedAirport(n) ==
  Cat(<<RepLazy(NotCh({"\n", "\r"}), 0, 50), Opt(Ch({"("})), SpaceStar, iata_token(n),
        SpaceStar, Opt(Ch({")"}))>>)

\* \(?\s*{iata_token}\s*\)?
BracketedAirport(n) ==
  Cat(<<Opt(Ch({"("})), SpaceStar, iata_token(n), SpaceStar, Opt(Ch({")"}))>>)

\* airport_patterns of _parse_generic_email (all used with re.IGNORECASE)
generic_airport_patterns ==
  << IgnoreCase(Cat(<<Alt(<<Lit(<<"f","r","o","m">>), Lit(<<"d","e">>), Lit(<<"d","e","s","d","e">>), Lit(<<"o","r","i","g","e","m">>),
                            Lit(<<"o","r","i","g","e","n">>), Lit(<<"d","e","p","a","r","t","u","r","e">>), Lit(<<"s","a","l","i","d","a">>)>>),
                      ColonOrDash, NamedAirport(1), SpaceStar,
                      Alt(<<Lit(<<"t","o">>), Lit(<<"p","a","r","a">>), Lit(<<"a","t","e">>), Lit(<<"a">>), Lit(<<"h","a","s","t","a">>),
                            Lit(<<"d","e","s","t","i","n","o">>), Lit(<<"a","r","r","i","v","a","l">>), Lit(<<"c","h","e","g","a","d","a">>), Lit(<<"l","l","e","g","a","d","a">>)>>),
                      ColonOrDash, NamedAirport(2)>>)),
     IgnoreCase(Cat(<<BracketedAirport(1), SpaceStar,
                      Alt(<<Lit(<<"t","o">>), Lit(<<"p","a","r","a">>), Lit(<<"a">>), Lit(<<"h","a","s","t","a">>), Lit(<<"-",">">>), Lit(<<"-">>)>>),
                      SpaceStar, BracketedAirport(2)>>)),
     IgnoreCase(Cat(<<iata_token(1), SpaceStar, Alt(<<Lit(<<"t","o">>), Lit(<<"-",">">>), Lit(<<"-">>)>>),
                      SpaceStar, iata_token(2)>>)) >>

\* ([A-Z0-9]{5,8})
ConfirmationCandidate == Grp(1, Rep(Ch(UpperOrDigit), 5, 8))

\* confirmation_patterns of _parse_generic_email (all used with re.IGNORECASE)
confirmation_patterns ==
  << IgnoreCase(Cat(<<Alt(<<Lit(<<"c","o","n","f","i","r","m","a","t","i","o","n">>), Lit(<<"c","o","n","f","i","r","m","a","c","i","o","n">>), Lit(<<"c","o","n","f","i","r","m","a","c","a","o">>),
                            Lit(<<"b","o","o","k","i","n","g">>), Lit(<<"r","e","s","e","r","v","a">>), Lit(<<"r","e","s","e","r","v","a","c","i","o","n">>),
                            Lit(<<"r","e","f","e","r","e","n","c","e">>), Lit(<<"r","e","f","e","r","e","n","c","i","a">>), Lit(<<"p","n","r">>),
                            Lit(<<"r","e","s","e","r","v","a","t","i","o","n">>), Lit(<<"l","o","c","a","l","i","z","a","d","o","r">>),
                            Cat(<<Lit(<<"c","o","d","i","g","o">>), SpacePlus, Lit(<<"d","e">>), SpacePlus, Lit(<<"r","e","s","e","r","v","a">>)>>),
                            Cat(<<Lit(<<"c","o","d","i","g","o">>), SpacePlus, Lit(<<"d","e">>), SpacePlus, Lit(<<"c","o","n","f","i","r","m","a","c","i","o","n">>)>>)>>),
                      SpaceStar, Opt(Alt(<<Lit(<<"c","o","d","e">>), Lit(<<"n","u","m","b","e","r">>), Lit(<<"#">>)>>)), SpaceStar,
                      Ch({":", "#", " "}), SpaceStar, ConfirmationCandidate>>)),
     IgnoreCase(Cat(<<Lit(<<"#">>), SpaceStar, ConfirmationCandidate>>)) >>

\* match.group(1).replace(' ', '') of re.search(pattern, text), <<>> without a match
FlightCandidateOf(pattern, text) ==
  LET m == Search(pattern, text)
  IN IF Found(m) THEN RemoveSpaces(Group(text, m, 1)) ELSE <<>>

\* the candidates of the three flight patterns, in order
FlightCandidates(text) ==
  <<FlightCandidateOf(generic_flight_patterns[1], text),
    FlightCandidateOf(generic_flight_patterns[2], text),
    FlightCandidateOf(generic_flight_patterns[3], text)>>

\* generic_flight_number without the test of line 243: the first candidate
generic_flight_number_unchecked(candidates) ==
  LET ok == {k \in DOMAIN candidates : candidates[k] # <<>>}
  IN IF ok = {} THEN None ELSE Str(candidates[MinOf(ok)])

\* lines 238-246: the first candidate with a letter in it
generic_flight_number(candidates) ==
  LET ok == {k \in DOMAIN candidates : candidates[k] # <<>> /\ AnyAlpha(candidates[k])}
  IN IF ok = {} THEN None ELSE Str(candidates[MinOf(ok)])

\* (match.group(1), match.group(2)) of re.search(pattern, text), <<>> without a match
AirportCandidateOf(pattern, text) ==
  LET m == Search(pattern, text)
  IN IF Found(m) THEN <<Group(text, m, 1), Group(text, m, 2)>> ELSE <<>>

\* the candidates of the three airport patterns, in order
AirportCandidates(text) ==
  <<AirportCandidateOf(generic_airport_patterns[1], text),
    AirportCandidateOf(generic_airport_patterns[2], text),
    AirportCandidateOf(generic_airport_patterns[3], text)>>

\* lines 248-256: the first pair whose two codes differ, as <<pair>>, or <<>>
generic_airports(candidates) ==
  LET ok == {k \in DOMAIN candidates : candidates[k] # <<>> /\ candidates[k][1] # candidates[k][2]}
  IN IF ok = {} THEN <<>> ELSE <<candidates[MinOf(ok)]>>

\* lines 266-282 of _parse_generic_email, on what the searches found
generic_info(flight_number, airports, confirmation, airline) ==
  IF Truthy(flight_number) /\ airports # <<>>
  THEN FlightInfo(flight_number.s, <<>>, <<>>, airports[1][1], airports[1][2],
                  OrEmpty(confirmation).s, airline)
  ELSE NoFlightInfo

\* the searches of _parse_generic_email on text = body + ' ' + subject
generic_search(text, airline) ==
  CHOOSE info \in
    {generic_info(generic_flight_number(fc), generic_airports(ac), confirmation, airline) :
       fc \in {FlightCandidates(text)},
       ac \in {AirportCandidates(text)},
       confirmation \in {GroupOrNone(text, FirstMatch(confirmation_patterns, text), 1)}} : TRUE

\* _parse_generic_email(subject, body, from_addr)
_parse_generic_email(subject, body, from_addr) ==
  CHOOSE info \in
    {generic_search(text, airline) :
       text \in {body \o <<" ">> \o subject},
       airline \in {_detect_airline(subject, body, from_addr)}} : TRUE

\* ------------------------------------------------------------------------
\* The emails parse_flight_email is run on: a subject, a sender, and a body
\* of four optional lines
\* ------------------------------------------------------------------------

ParseSubjects == {<<"Y","o","u","r"," ","V","i","e","t","J","e","t"," ","R","e","s","e","r","v","a","t","i","o","n"," ","#","A","B","C","1","2","3">>, <<"F","l","i","g","h","t"," ","c","o","n","f","i","r","m","a","t","i","o","n">>}

ParseSenders == {<<"n","o","r","e","p","l","y","@","v","i","e","t","j","e","t","a","i","r",".","c","o","m">>, <<"n","o","-","r","e","p","l","y","@","e","x","a","m","p","l","e",".","c","o","m">>}

ConfirmationLines == {<<"R","e","s","e","r","v","a","t","i","o","n"," ","#"," ","A","B","C","1","2","3","\n">>, <<"C","o","n","f","i","r","m","a","t","i","o","n"," ","C","o","d","e",":"," ","Z","X","C","V","B","N","\n">>, <<>>}

FlightLines ==
  {<<"F","l","i","g","h","t"," ","N","o","."," ","V","J"," ","1","2","3","4","\n">>, <<"F","l","i","g","h","t"," ","N","o","."," ","V","J","\t","1","2","3","4","\n">>, <<"F","l","i","g","h","t",":"," ","A","A"," ","1","2","3","\n">>,
   <<"F","l","i","g","h","t",":"," ","1","2"," ","3","4","5","\n">>, <<"F","l","i","g","h","t"," ","1","2","3","4"," ","V","J"," ","1","2","3"," ","t","o","\n">>, <<>>}

AirportLines ==
  {<<"F","r","o","m",":"," ","S","G","N"," ","T","o",":"," ","H","A","N","\n">>, <<"F","r","o","m",":"," ","J","F","K"," ","T","o",":"," ","L","A","X","\n">>, <<"F","r","o","m",":"," ","J","F","K"," ","T","o",":"," ","J","F","K","\n">>,
   <<"D","e",":"," ","S","a","o"," ","P","a","u","l","o"," ","(","G","R","U",")"," ","a"," ","F","o","r","t","a","l","e","z","a"," ","(","F","O","R",")","\n">>, <<>>}

DateLines == {<<"D","a","t","e",":"," ","1","2"," ","M","a","r","c","h"," ","2","0","2","6","\n">>, <<>>}

ParseEmails ==
  {[subject |-> s, from |-> f, body |-> c \o fl \o a \o d] :
     s \in ParseSubjects, f \in ParseSenders, c \in ConfirmationLines,
     fl \in FlightLines, a \in AirportLines, d \in DateLines}

VARIABLES
  parse_email,     \* the email given to parse_flight_email
  detected,        \* parse_flight_email: airline
  vietjet_result,  \* parse_flight_email: result of _parse_vietjet_email
  parsed,          \* what parse_flight_email returns
  ppc              \* parse_flight_email: "detect", "vietjet", "generic" or "done"

parseVars == <<parse_email, detected, vietjet_result, parsed, ppc>>

ParseOff ==
  /\ parse_email = [subject |-> <<>>, from |-> <<>>, body |-> <<>>]
  /\ detected = <<>> /\ vietjet_result = NoFlightInfo /\ parsed = NoFlightInfo /\ ppc = "off"

ParseInit ==
  /\ parse_email \in ParseEmails
  /\ detected = <<>>
  /\ vietjet_result = NoFlightInfo
  /\ parsed = NoFlightInfo
  /\ ppc = "detect"

\* lines 38-47: the airline is detected
DetectAirline ==
  /\ ppc = "detect"
  /\ detected' = _detect_airline(parse_email.subject, parse_email.body, parse_email.from)
  /\ ppc' = IF detected' = VietJetAir THEN "vietjet" ELSE "generic"
  /\ UNCHANGED <<parse_email, vietjet_result, parsed>>

\* lines 50-54: the VietJet Air parser; its result, if any, is returned
ParseVietjet ==
  /\ ppc = "vietjet"
  /\ vietjet_result' = _parse_vietjet_email(parse_email.subject, parse_email.body)
  /\ IF vietjet_result' # NoFlightInfo
     THEN parsed' = vietjet_result' /\ ppc' = "done"
     ELSE UNCHANGED parsed /\ ppc' = "generic"
  /\ UNCHANGED <<parse_email, detected>>

\* lines 57-58: the generic parser; its result is returned
ParseGeneric ==
  /\ ppc = "generic"
  /\ parsed' = _parse_generic_email(parse_email.subject, parse_email.body, parse_email.from)
  /\ ppc' = "done"
  /\ UNCHANGED <<parse_email, detected, vietjet_result>>

\* ------------------------------------------------------------------------
\* The subjects, bodies and senders is_potential_flight_email is run on: a
\* subject is a prefix (with or without an exclusion keyword), a phrase (with
\* or without a strong indicator) and, or not, a flight-number token
\* ------------------------------------------------------------------------

ClassifyPrefixes ==
  {<<>>, <<"Y","o","u","r"," ","h","o","t","e","l"," ">>, <<"A","i","r","b","n","b"," ">>, <<"E","x","p","e","d","i","a",":"," ">>, <<"R","e","s","e","r","v","a","t","i","o","n"," ","a","t"," ">>,
   <<"H","o","t","e","l","s",".","c","o","m"," ">>, <<"A","P","A","R","T","M","E","N","T"," ">>, <<"b","o","o","k","i","n","g",".","c","o","m"," ">>}

ClassifyPhrases == {<<"f","l","i","g","h","t"," ","c","o","n","f","i","r","m","a","t","i","o","n">>, <<"E","-","T","i","c","k","e","t">>, <<"B","o","a","r","d","i","n","g"," ","P","a","s","s">>, <<"h","e","l","l","o">>}

ClassifyTokens == {<<>>, <<" ","V","J","1","2","3">>}

ClassifySenders == {<<"d","e","a","l","s","@","a","i","r","a","s","i","a",".","c","o","m">>, <<"n","o","r","e","p","l","y","@","b","o","o","k","i","n","g",".","c","o","m">>, <<"a","@","e","x","a","m","p","l","e",".","c","o","m">>}

ClassifyBodies == {<<>>, <<"Y","o","u","r"," ","f","l","i","g","h","t"," ","V","J","1","2","3">>}

ClassifyEmails ==
  {[subject |-> a \o b \o c, from |-> f, body |-> d] :
     a \in ClassifyPrefixes, b \in ClassifyPhrases, c \in ClassifyTokens,
     f \in ClassifySenders, d \in ClassifyBodies}

VARIABLES
  cls_email,   \* the subject, body and sender given to is_potential_flight_email
  classified   \* [done |-> whether it was called, ok |-> its result]

classifyVars == <<cls_email, classified>>

NotClassified == [done |-> FALSE, ok |-> FALSE]

ClassifyOff ==
  cls_email = [subject |-> <<>>, from |-> <<>>, body |-> <<>>] /\ classified = NotClassified

ClassifyInit == cls_email \in ClassifyEmails /\ classified = NotClassified

\* is_potential_flight_email(subject, body, from_address)
Classify ==
  /\ ~classified.done
  /\ classified' =
       [done |-> TRUE,
        ok   |-> is_potential_flight_email(cls_email.subject, cls_email.body, cls_email.from)]
  /\ UNCHANGED cls_email

\* ------------------------------------------------------------------------
\* src/src/parsers/flight_parser.py: parse_flight_email as one function, and
\* FlightInfo.to_dict
\* ------------------------------------------------------------------------

\* lines 46-58: the result of the airline's own parser, if any, else the
\* result of the generic parser
parse_with(airline, subject, body, from_addr) ==
  IF airline = VietJetAir
  THEN CHOOSE info \in
         {IF result # NoFlightInfo THEN result ELSE _parse_generic_email(subject, body, from_addr) :
            result \in {_parse_vietjet_email(subject, body)}} : TRUE
  ELSE _parse_generic_email(subject, body, from_addr)

\* parse_flight_email(email)
parse_flight_email(email) ==
  CHOOSE info \in
    {parse_with(airline, email.subject, email.body, email.from) :
       airline \in {_detect_airline(email.subject, email.body, email.from)}} : TRUE

\* FlightInfo.to_dict(): every field of the dataclass, no "confidence"
to_dict(info) ==
  [flight_number |-> Str(info.flight_number),
   departure_datetime |-> Str(info.departure_datetime),
   arrival_datetime |-> Str(info.arrival_datetime),
   departure_airport |-> Str(info.departure_airport),
   arrival_airport |-> Str(info.arrival_airport),
   confirmation_code |-> Str(info.confirmation_code),
   airline |-> Str(info.airline),
   confidence |-> Missing]

\* ------------------------------------------------------------------------
\* src/src/utils/llm_cost.py: confirm_llm_run
\* ------------------------------------------------------------------------

\* str.strip(): the string without its leading and trailing whitespace
StrStrip(s) ==
  LET keep == {i \in DOMAIN s : s[i] \notin Space}
  IN IF keep = {} THEN <<>> ELSE SubSeq(s, MinOf(keep), MaxOf(keep))

\* line 186: the responses that confirm
YesResponses == {<<"y">>, <<"y","e","s">>}

\* line 185: the response read from the line typed at the prompt
Response(answer) == StrLower(StrStrip(answer))

\* confirm_llm_run(dry_run, auto_approve, action), with what it finds on
\* standard input: whether it is a terminal, and the line typed at the prompt.
\* The result says whether the prompt was shown.
confirm_llm_run(dry_run, auto_approve, isatty, answer) ==
  IF dry_run THEN [result |-> FALSE, prompted |-> FALSE]
  ELSE IF auto_approve THEN [result |-> TRUE, prompted |-> FALSE]
  ELSE IF ~isatty THEN [result |-> FALSE, prompted |-> FALSE]
  ELSE [result |-> Response(answer) \in YesResponses, prompted |-> TRUE]

\* ------------------------------------------------------------------------
\* src/src/process_emails.py: process_stored_emails
\* ------------------------------------------------------------------------

\* an Optional[float]: None, or a number
NoNumber == [set |-> FALSE, n |-> 0]

Number(n) == [set |-> TRUE, n |-> n]

\* x or 0.0
OrZero(x) == IF x.set THEN x.n ELSE 0

\* the rates given for the LLM: unset, or so much per million tokens
Rates == {NoNumber, Number(3)}

\* OPENAI_API_KEY: unset, or a key
ApiKeys == {None, Str(<<"k","e","y">>)}

\* llm_settings: None, or an LlmSettings (lines 27-42)
NoSettings ==
  [given |-> FALSE, use_extraction |-> FALSE, classify_itinerary |-> FALSE,
   input_cost_per_million |-> NoNumber, output_cost_per_million |-> NoNumber,
   dry_run |-> FALSE, auto_approve |-> FALSE, api_key |-> None]

LlmSettings ==
  [given : {TRUE}, use_extraction : BOOLEAN, classify_itinerary : BOOLEAN,
   input_cost_per_million : Rates, output_cost_per_million : Rates,
   dry_run : BOOLEAN, auto_approve : BOOLEAN, api_key : ApiKeys]

\* line 39: classify_threshold, in tenths
classify_threshold == 6

\* the stored emails: one the VietJet Air parser reads, one the generic
\* parser reads, one no parser reads
StoredEmails ==
  << [subject |-> <<"Y","o","u","r"," ","V","i","e","t","J","e","t"," ","R","e","s","e","r","v","a","t","i","o","n"," ","#","A","B","C","1","2","3">>, from |-> <<"n","o","r","e","p","l","y","@","v","i","e","t","j","e","t","a","i","r",".","c","o","m">>,
      body |-> <<"F","l","i","g","h","t"," ","N","o","."," ","V","J"," ","1","2","3","4","\n","F","r","o","m",":"," ","S","G","N"," ","T","o",":"," ","H","A","N","\n","D","a","t","e",":"," ","1","2"," ","M","a","r","c","h"," ","2","0","2","6","\n">>],
     [subject |-> <<"F","l","i","g","h","t"," ","c","o","n","f","i","r","m","a","t","i","o","n">>, from |-> <<"n","o","-","r","e","p","l","y","@","e","x","a","m","p","l","e",".","c","o","m">>,
      body |-> <<"F","l","i","g","h","t",":"," ","A","A"," ","1","2","3","\n","F","r","o","m",":"," ","J","F","K"," ","T","o",":"," ","L","A","X","\n">>],
     [subject |-> <<"Y","o","u","r"," ","t","r","i","p"," ","i","s"," ","c","o","m","i","n","g"," ","u","p">>, from |-> <<"n","o","-","r","e","p","l","y","@","e","x","a","m","p","l","e",".","c","o","m">>,
      body |-> <<"L","e","a","v","e","s"," ","a","t"," ","1","0",":","0","0"," ","o","n"," ","1","2","/","0","3","/","2","0","2","6","\n">>] >>

\* how many emails storage.load_emails hands over at most
MaxStored == 2

\* the lists storage.load_emails may return, as positions in StoredEmails
StoredBatches == UNION {[1..k -> DOMAIN StoredEmails] : k \in 0..MaxStored}

\* parse_flight_email on each stored email, computed once
ParseTable == {<<e, parse_flight_email(StoredEmails[e])>> : e \in DOMAIN StoredEmails}

ParseOf(e) == (CHOOSE row \in ParseTable : row[1] = e)[2]

\* what the line typed at the prompt may be
Answers == {<<"y">>, <<"y","e","s">>, <<"Y">>, <<" ","Y","e","s"," ">>, <<"n">>, <<>>}

\* what classify_itinerary_email_llm may do: return None, return a decision
\* (is_itinerary, confidence in tenths or None), raise RuntimeError, or let an
\* error of the API client through (only BadRequestError is caught, lines 83-95)
ClassifyOutcomes ==
  { [kind |-> "none", is_itinerary |-> FALSE, confidence |-> NoNumber],
    [kind |-> "decision", is_itinerary |-> FALSE, confidence |-> Number(9)],
    [kind |-> "decision", is_itinerary |-> FALSE, confidence |-> Number(6)],
    [kind |-> "decision", is_itinerary |-> FALSE, confidence |-> Number(5)],
    [kind |-> "decision", is_itinerary |-> FALSE, confidence |-> NoNumber],
    [kind |-> "decision", is_itinerary |-> TRUE, confidence |-> Number(9)],
    [kind |-> "RuntimeError", is_itinerary |-> FALSE, confidence |-> NoNumber],
    [kind |-> "APIError", is_itinerary |-> FALSE, confidence |-> NoNumber] }

\* a dict extract_flight_info_llm returns: the fields of LlmFlightInfo, empty
\* strings turned to None, the confidence kept as its text
LlmFlight ==
  [flight_number |-> Str(<<"V","J","1","2","3","4">>), departure_datetime |-> Str(<<"2","0","2","6","-","0","3","-","1","2","T","1","0",":","0","0">>),
   arrival_datetime |-> None, departure_airport |-> Str(<<"S","G","N">>),
   arrival_airport |-> Str(<<"H","A","N">>), confirmation_code |-> None,
   airline |-> Str(<<"V","i","e","t","J","e","t"," ","A","i","r">>), confidence |-> Str(<<"0",".","9">>)]

\* what extract_flight_info_llm may do: return None, return a dict, raise
\* RuntimeError, or let an error of the API client through (lines 145-157)
ExtractOutcomes ==
  { [kind |-> "none", dict |-> <<>>], [kind |-> "dict", dict |-> <<LlmFlight>>],
    [kind |-> "RuntimeError", dict |-> <<>>], [kind |-> "APIError", dict |-> <<>>] }

\* os.path.dirname(path): what stands before the last "/" of the path
DirName(path) ==
  LET slashes == {i \in DOMAIN path : path[i] = "/"}
  IN IF slashes = {} THEN <<>>
     ELSE SubSeq(path, 1, (CHOOSE i \in slashes : \A j \in slashes : j <= i) - 1)

\* the output_file argument: None, the default of main (lines 254-258), or a
\* file name without a directory
OutputFiles == {None, Str(<<"d","a","t","a","/","p","r","o","c","e","s","s","e","d","/","f","l","i","g","h","t","s","_","a","l","l",".","j","s","o","n">>), Str(<<"f","l","i","g","h","t","s",".","j","s","o","n">>)}

VARIABLES
  llm_settings,      \* the llm_settings argument
  output_file,       \* the output_file argument
  decisions,         \* what classify_itinerary_email_llm did, call after call
  output_written,    \* <<flights>> once the output file is written, else <<>>
  emails,            \* what storage.load_emails returned
  confirm_call,      \* the call of confirm_llm_run, if it was made
  email_pos,         \* the position of the loop of line 130 in emails
  flight_dict,       \* <<flight_dict>>, or <<>> for None
  flight_info_list,  \* the dicts collected so far
  llm_calls,         \* the calls of parse_flight_email and of the LLM, in order
  pspc,              \* "start", "classify", "parse", "extract", "collect", "dedup", "done"
  proc_result        \* how process_stored_emails ended

processVars ==
  <<llm_settings, output_file, emails, confirm_call, email_pos, decisions, flight_dict,
    flight_info_list, llm_calls, pspc, proc_result, output_written>>

NotConfirmCalled ==
  [called |-> FALSE, isatty |-> FALSE, answer |-> <<>>, result |-> FALSE, prompted |-> FALSE]

Running == [kind |-> "running", why |-> "", flights |-> <<>>]

Returned(why, flight_dicts) == [kind |-> "returned", why |-> why, flights |-> flight_dicts]

Raised(why) == [kind |-> "raised", why |-> why, flights |-> <<>>]

LlmCall(fn, pos, out) == [fn |-> fn, pos |-> pos, out |-> out]

ProcessOff ==
  /\ llm_settings = NoSettings /\ emails = <<>> /\ confirm_call = NotConfirmCalled
  /\ email_pos = 1 /\ flight_dict = <<>> /\ flight_info_list = <<>> /\ llm_calls = <<>>
  /\ pspc = "off" /\ proc_result = Running
  /\ output_file = None /\ decisions = <<>> /\ output_written = <<>>

ProcessInit ==
  /\ llm_settings \in LlmSettings \cup {NoSettings}
  /\ output_file \in OutputFiles
  /\ decisions = <<>>
  /\ output_written = <<>>
  /\ emails = <<>>
  /\ confirm_call = NotConfirmCalled
  /\ email_pos = 1
  /\ flight_dict = <<>>
  /\ flight_info_list = <<>>
  /\ llm_calls = <<>>
  /\ pspc = "start"
  /\ proc_result = Running

\* line 71: was LLM extraction or LLM classification asked for
LlmRequested(settings) ==
  settings.given /\ (settings.use_extraction \/ settings.classify_itinerary)

\* PricingGate with "and" for "or": open as soon as one rate is set
PricingGateBoth(settings) ==
  ~settings.input_cost_per_million.set /\ ~settings.output_cost_per_million.set

\* line 98: a rate is None
PricingGate(settings) ==
  ~settings.input_cost_per_million.set \/ ~settings.output_cost_per_million.set

\* ConfirmGate that lets every run through
ConfirmGateOpen(confirmed) == FALSE

\* line 112: "if not confirmed"
ConfirmGate(confirmed) == ~confirmed

\* lines 62-128: the emails are loaded, the estimates are printed, and the
\* run is stopped when there is no email, a rate is unset, the run is not
\* confirmed, there is no API key, or openai or pydantic cannot be imported
ProcStart ==
  /\ pspc = "start"
  /\ \E batch \in StoredBatches, isatty \in BOOLEAN, answer \in Answers, installed \in BOOLEAN :
       LET requested == LlmRequested(llm_settings)
           priced    == requested /\ batch # <<>> /\ ~PricingGate(llm_settings)
           confirmed == confirm_llm_run(llm_settings.dry_run, llm_settings.auto_approve,
                                        isatty, answer)
           why == IF batch = <<>> THEN "no emails"
                  ELSE IF ~requested THEN ""
                  ELSE IF PricingGate(llm_settings) THEN "pricing"
                  ELSE IF ConfirmGate(confirmed.result) THEN "not confirmed"
                  ELSE IF llm_settings.api_key = None THEN "no api key"
                  ELSE IF ~installed THEN "missing dependencies"
                  ELSE ""
       IN /\ emails' = batch
          /\ confirm_call' =
               IF priced
               THEN [called |-> TRUE, isatty |-> isatty, answer |-> answer,
                     result |-> confirmed.result, prompted |-> confirmed.prompted]
               ELSE NotConfirmCalled
          /\ IF why = ""
             THEN pspc' = "classify" /\ UNCHANGED proc_result
             ELSE pspc' = "done" /\ proc_result' = Returned(why, <<>>)
  /\ UNCHANGED <<llm_settings, output_file, email_pos, decisions, flight_dict,
                 flight_info_list, llm_calls, output_written>>

\* the state of the loop of line 130 once the email at email_pos is done with
NextEmail ==
  /\ email_pos' = email_pos + 1
  /\ pspc' = IF email_pos + 1 > Len(emails) THEN "dedup" ELSE "classify"

\* HardStop that stops nothing: a failed call counts as a call that returned None
HardStopNever(outcome) == FALSE

\* lines 140-142 and 165-167: "except RuntimeError: return []"; any other
\* exception is not caught and ends process_stored_emails as well
HardStop(outcome) == outcome.kind \in {"RuntimeError", "APIError"}

\* how a failed LLM call ends the run
Stopped(outcome, why) ==
  IF outcome.kind = "RuntimeError" THEN Returned(why, <<>>) ELSE Raised(outcome.kind)

\* SkippedByFilter with > for >=: a confidence equal to the threshold does not
\* skip the email
SkippedByFilterAbove(decision) ==
  /\ decision.kind = "decision"
  /\ ~decision.is_itinerary
  /\ OrZero(decision.confidence) > classify_threshold

\* line 146: the email is skipped
SkippedByFilter(decision) ==
  /\ decision.kind = "decision"
  /\ ~decision.is_itinerary
  /\ OrZero(decision.confidence) >= classify_threshold

\* lines 132-152: with classify_itinerary, the LLM classifies the email
ProcClassify ==
  /\ pspc = "classify"
  /\ IF llm_settings.given /\ llm_settings.classify_itinerary
     THEN \E decision \in ClassifyOutcomes :
            /\ llm_calls' = Append(llm_calls, LlmCall("classify_itinerary_email_llm", email_pos, decision.kind))
            /\ decisions' = Append(decisions, decision)
            /\ IF HardStop(decision)
               THEN /\ pspc' = "done"
                    /\ proc_result' = Stopped(decision, "classification failed")
                    /\ UNCHANGED email_pos
               ELSE IF SkippedByFilter(decision)
               THEN NextEmail /\ UNCHANGED proc_result
               ELSE pspc' = "parse" /\ UNCHANGED <<email_pos, proc_result>>
     ELSE pspc' = "parse" /\ UNCHANGED <<llm_calls, decisions, email_pos, proc_result>>
  /\ UNCHANGED <<llm_settings, output_file, emails, confirm_call, flight_dict,
                 flight_info_list, output_written>>

\* LlmFallback that does not look at what the parser returned
LlmFallbackAlways(flight_info, settings) == settings.given /\ settings.use_extraction

\* lines 155-157: the LLM extractor is asked when the parser returned None
\* and use_extraction is set
LlmFallback(flight_info, settings) ==
  flight_info = NoFlightInfo /\ settings.given /\ settings.use_extraction

\* lines 154-157, 168-169: parse_flight_email; its record, if any, is the
\* flight_dict
ProcParse ==
  /\ pspc = "parse"
  /\ LET flight_info == ParseOf(emails[email_pos])
     IN /\ llm_calls' = Append(llm_calls, LlmCall("parse_flight_email", email_pos,
                                 IF flight_info = NoFlightInfo THEN "none" ELSE "record"))
        /\ flight_dict' = IF flight_info = NoFlightInfo THEN <<>> ELSE <<to_dict(flight_info)>>
        /\ pspc' = IF LlmFallback(flight_info, llm_settings) THEN "extract" ELSE "collect"
  /\ UNCHANGED <<llm_settings, output_file, emails, confirm_call, email_pos, decisions,
                 flight_info_list, proc_result, output_written>>

\* lines 158-167: extract_flight_info_llm
ProcExtract ==
  /\ pspc = "extract"
  /\ \E extracted \in ExtractOutcomes :
       /\ llm_calls' = Append(llm_calls, LlmCall("extract_flight_info_llm", email_pos, extracted.kind))
       /\ IF HardStop(extracted)
          THEN /\ pspc' = "done"
               /\ proc_result' = Stopped(extracted, "extraction failed")
               /\ UNCHANGED flight_dict
          ELSE /\ pspc' = "collect"
               /\ flight_dict' = extracted.dict
               /\ UNCHANGED proc_result
  /\ UNCHANGED <<llm_settings, output_file, emails, confirm_call, email_pos, decisions,
                 flight_info_list, output_written>>

\* lines 171-176: a flight_dict that is not None is collected
ProcCollect ==
  /\ pspc = "collect"
  /\ flight_info_list' = flight_info_list \o flight_dict
  /\ flight_dict' = <<>>
  /\ NextEmail
  /\ UNCHANGED <<llm_settings, output_file, emails, confirm_call, decisions, llm_calls,
                 proc_result, output_written>>

\* lines 181-185: the output file is written when there are flights and an
\* output_file that is not None and not empty
Saves(flights, file) == flights # <<>> /\ Truthy(file)

\* lines 179-201: the collected dicts are deduplicated, saved to the
\* output file and returned; os.makedirs of line 186 raises FileNotFoundError
\* for the empty directory name of a bare file name, before the file is opened
ProcFinish ==
  /\ pspc = "dedup"
  /\ \E flights \in {deduplicate_flights(flight_info_list)} :
       IF Saves(flights, output_file) /\ DirName(output_file.s) = <<>>
       THEN proc_result' = Raised("FileNotFoundError") /\ UNCHANGED output_written
       ELSE /\ proc_result' = Returned("", flights)
            /\ output_written' = IF Saves(flights, output_file) THEN <<flights>>
                                  ELSE output_written
  /\ pspc' = "done"
  /\ UNCHANGED <<llm_settings, output_file, emails, confirm_call, email_pos, decisions,
                 flight_dict, flight_info_list, llm_calls>>

\* ------------------------------------------------------------------------
\* src/src/llm/extractor.py: the prompts; src/src/process_emails.py: main,
\* the caps on the body
\* ------------------------------------------------------------------------

\* line 234: the default of --llm-max-body-chars
DefaultMaxBodyChars == 4000

\* lines 14-17: email.get("body", "") or "", cut to max_body_chars when
\* max_body_chars is a number above 0
prompt_body(body, max_body_chars) ==
  LET text == IF Truthy(body) THEN body.s ELSE <<>>
  IN IF max_body_chars.set /\ max_body_chars.n > 0
     THEN SubSeq(text, 1, Min(max_body_chars.n, Len(text)))
     ELSE text

\* lines 23-27 and 45-49: the headers and the body
EmailPart(email, max_body_chars) ==
  <<"S","u","b","j","e","c","t",":"," ">> \o email.subject \o <<"\n","F","r","o","m",":"," ">> \o email.from \o <<"\n","D","a","t","e",":"," ">> \o email.date
  \o <<"\n","B","o","d","y",":","\n">> \o prompt_body(email.body, max_body_chars) \o <<"\n">>

\* lines 19-22
ExtractionInstructions ==
  <<"E","x","t","r","a","c","t"," ","f","l","i","g","h","t"," ","d","e","t","a","i","l","s"," ","f","r","o","m"," ","t","h","e"," ","e","m","a","i","l","."," ","I","f"," ","a"," ","f","i","e","l","d"," ","i","s"," ","n","o","t"," ","p","r","e","s","e","n","t",","," ","r","e","t","u","r","n"," ","n","u","l","l","."," ","P","r","e","f","e","r"," ","I","A","T","A"," ","a","i","r","p","o","r","t"," ","c","o","d","e","s"," ","a","n","d"," ","I","S","O"," ","8","6","0","1"," ","d","a","t","e","/","t","i","m","e"," ","i","f"," ","p","o","s","s","i","b","l","e",".","\n","\n">>

\* lines 40-44
ClassificationInstructions ==
  <<"D","e","c","i","d","e"," ","i","f"," ","t","h","i","s"," ","e","m","a","i","l"," ","i","s"," ","a"," ","t","r","a","v","e","l"," ","i","t","i","n","e","r","a","r","y"," ","o","r"," ","c","o","n","t","a","i","n","s"," ","a","c","t","i","o","n","a","b","l","e"," ","t","r","a","v","e","l"," ","r","e","s","e","r","v","a","t","i","o","n"," ","i","n","f","o","."," ","R","e","t","u","r","n"," ","t","r","u","e"," ","f","o","r"," ","f","l","i","g","h","t","s",","," ","b","o","a","r","d","i","n","g"," ","p","a","s","s","e","s",","," ","c","h","e","c","k","-","i","n"," ","n","o","t","i","c","e","s",","," ","t","i","c","k","e","t","i","n","g",","," ","o","r"," ","r","e","s","e","r","v","a","t","i","o","n","s"," ","w","i","t","h"," ","d","a","t","e","s",","," ","c","i","t","i","e","s",","," ","a","i","r","p","o","r","t","s",","," ","o","r"," ","b","o","o","k","i","n","g"," ","c","o","d","e","s","."," ","R","e","t","u","r","n"," ","f","a","l","s","e"," ","f","o","r"," ","p","r","o","m","o","s",","," ","s","u","r","v","e","y","s",","," ","b","l","o","g","s",","," ","l","o","y","a","l","t","y"," ","m","a","r","k","e","t","i","n","g",","," ","o","r"," ","u","n","r","e","l","a","t","e","d"," ","t","r","a","v","e","l"," ","c","o","n","t","e","n","t",".","\n","\n">>

\* _build_prompt(email, max_body_chars)
_build_prompt(email, max_body_chars) ==
  ExtractionInstructions \o EmailPart(email, max_body_chars)

\* _build_classification_prompt(email, max_body_chars)
_build_classification_prompt(email, max_body_chars) ==
  ClassificationInstructions \o EmailPart(email, max_body_chars)

\* process_emails.py, lines 291 and 302: the caps main puts in the LlmSettings.
\* --llm-max-body-chars has a default, --llm-filter-max-body-chars has none
\* and falls back, when it is None or 0, on the former
main_caps(llm_max_body_chars, llm_filter_max_body_chars) ==
  LET max_body_chars == IF llm_max_body_chars.set THEN llm_max_body_chars
                        ELSE Number(DefaultMaxBodyChars)
  IN [max_body_chars |-> max_body_chars,
      classify_max_body_chars |->
        IF llm_filter_max_body_chars.set /\ llm_filter_max_body_chars.n # 0
        THEN llm_filter_max_body_chars ELSE max_body_chars]

\* the values given for a cap: none, a negative number, zero, a small number
BodyCaps == {NoNumber, Number(0 - 1), Number(0), Number(3)}

\* a body longer than the default cap
LongBody == [i \in 1..(DefaultMaxBodyChars + 1) |-> "a"]

\* the bodies of the emails: None, empty, short, long
PromptBodies == {None, Str(<<>>), Str(<<"H","e","l","l","o">>), Str(LongBody)}

PromptEmail(body) ==
  [subject |-> <<"F","l","i","g","h","t"," ","1">>, from |-> <<"a","i","r","l","i","n","e","@","e","x","a","m","p","l","e",".","c","o","m">>,
   date |-> <<"T","u","e",","," ","1","0"," ","F","e","b"," ","2","0","2","6"," ","1","0",":","0","0",":","0","0"," ","+","0","0","0","0">>, body |-> body]

VARIABLES
  cap_args,     \* --llm-max-body-chars and --llm-filter-max-body-chars, as given
  caps,         \* max_body_chars and classify_max_body_chars of the LlmSettings
  prompt_email, \* the email the prompts are built for
  prompts,      \* the extraction prompt and the classification prompt
  bpc           \* "args", "settings" or "built"

promptVars == <<cap_args, caps, prompt_email, prompts, bpc>>

NoBodyCaps == [max_body_chars |-> NoNumber, classify_max_body_chars |-> NoNumber]

NoPrompts == [extraction |-> <<>>, classification |-> <<>>]

PromptOff ==
  /\ cap_args = [llm_max_body_chars |-> NoNumber, llm_filter_max_body_chars |-> NoNumber]
  /\ caps = NoBodyCaps /\ prompt_email = PromptEmail(None) /\ prompts = NoPrompts /\ bpc = "off"

PromptInit ==
  /\ cap_args \in [llm_max_body_chars : BodyCaps, llm_filter_max_body_chars : BodyCaps]
  /\ caps = NoBodyCaps
  /\ prompt_email \in {PromptEmail(body) : body \in PromptBodies}
  /\ prompts = NoPrompts
  /\ bpc = "args"

\* process_emails.py, lines 287-304: main builds the LlmSettings
MainSettings ==
  /\ bpc = "args"
  /\ caps' = main_caps(cap_args.llm_max_body_chars, cap_args.llm_filter_max_body_chars)
  /\ bpc' = "settings"
  /\ UNCHANGED <<cap_args, prompt_email, prompts>>

\* extractor.py, lines 71 and 133: the two prompts of an email, each with its cap
BuildPrompts ==
  /\ bpc = "settings"
  /\ prompts' =
       [extraction |-> _build_prompt(prompt_email, caps.max_body_chars),
        classification |-> _build_classification_prompt(prompt_email, caps.classify_max_body_chars)]
  /\ bpc' = "built"
  /\ UNCHANGED <<cap_args, caps, prompt_email>>

\* ------------------------------------------------------------------------
\* src/src/storage/email_storage.py: EmailStorage.load_emails
\* ------------------------------------------------------------------------

\* the directory the EmailStorage was created with, and another directory
StorageDir == <<"/","d","a","t","a","/","r","a","w","_","e","m","a","i","l","s">>

OtherDir == <<"/","h","o","m","e","/","u","s","e","r">>

\* the names of the stored files, in ascending order
FileNames == << <<"e","m","a","i","l","s","_","2","0","2","5","_","0","0","1",".","j","s","o","n">>, <<"e","m","a","i","l","s","_","2","0","2","6","_","0","0","1",".","j","s","o","n">>, <<"e","m","a","i","l","s","_","2","0","2","6","_","0","0","2",".","j","s","o","n">> >>

\* a file: absent, or a JSON file with metadata.year and emails (their ids)
NoFile == [present |-> FALSE, year |-> 0, emails |-> <<>>]

JsonFile(year, ids) == [present |-> TRUE, year |-> year, emails |-> ids]

\* the files of the storage directory: each name absent or present with the
\* year of its name and one email
StorageDirs ==
  { <<f1, f2, f3>> :
      f1 \in {NoFile, JsonFile(2025, <<"c">>)},
      f2 \in {NoFile, JsonFile(2026, <<"a">>)},
      f3 \in {NoFile, JsonFile(2026, <<"b">>)} }

\* the files of the other directory: the second name, absent or present
OtherDirs == { <<NoFile, f2, NoFile>> : f2 \in {NoFile, JsonFile(2026, <<"z">>)} }

\* a path: a bare file name, or an absolute path dir/name
BareName(name) == [absolute |-> FALSE, dir |-> <<>>, name |-> name]

AbsolutePath(dir, name) == [absolute |-> TRUE, dir |-> dir, name |-> name]

\* the arguments of load_emails: a year or None, a specific_file or None
NoPath == <<>>

LoadRequests ==
  {[year |-> y, specific_file |-> NoPath] : y \in {NoNumber, Number(2025), Number(2026)}}
  \cup {[year |-> NoNumber, specific_file |-> <<BareName(FileNames[k])>>] : k \in DOMAIN FileNames}
  \cup {[year |-> NoNumber, specific_file |-> <<AbsolutePath(StorageDir, FileNames[k])>>] :
          k \in DOMAIN FileNames}

VARIABLES
  storage_files,  \* the files of the storage directory, by position in FileNames
  other_files,    \* the files of the other directory
  working_dir,    \* the working directory of the process
  load_request,   \* the arguments of load_emails
  loaded,         \* what load_emails returned
  spc             \* "stored" or "loaded"

storageVars == <<storage_files, other_files, working_dir, load_request, loaded, spc>>

StorageOff ==
  /\ storage_files = <<NoFile, NoFile, NoFile>> /\ other_files = <<NoFile, NoFile, NoFile>>
  /\ working_dir = StorageDir /\ load_request = [year |-> NoNumber, specific_file |-> NoPath]
  /\ loaded = <<>> /\ spc = "off"

StorageInit ==
  /\ storage_files \in StorageDirs
  /\ other_files \in OtherDirs
  /\ working_dir \in {StorageDir, OtherDir}
  /\ load_request \in LoadRequests
  /\ loaded = <<>>
  /\ spc = "stored"

\* the file a path names: a bare name is looked up in the working directory
FileAt(path, in_storage, in_other, cwd) ==
  LET dir == IF path.absolute THEN path.dir ELSE cwd
      k   == CHOOSE k \in DOMAIN FileNames : FileNames[k] = path.name
  IN IF dir = StorageDir THEN in_storage[k] ELSE in_other[k]

\* load_emails(year, specific_file), lines 52-72: the emails of specific_file
\* when it is given and os.path.exists finds it; otherwise the list "emails"
\* of line 52, to which nothing was added, whether the default directory of
\* lines 62-63 exists or not. The year is not looked at.
load_emails(year, specific_file, in_storage, in_other, cwd) ==
  IF specific_file # NoPath /\ FileAt(specific_file[1], in_storage, in_other, cwd).present
  THEN FileAt(specific_file[1], in_storage, in_other, cwd).emails
  ELSE <<>>

\* storage.load_emails(year, specific_file)
LoadEmails ==
  /\ spc = "stored"
  /\ loaded' = load_emails(load_request.year, load_request.specific_file,
                           storage_files, other_files, working_dir)
  /\ spc' = "loaded"
  /\ UNCHANGED <<storage_files, other_files, working_dir, load_request>>

\* ------------------------------------------------------------------------
\* src/src/gmail_client.py: fetch_flight_emails
\* ------------------------------------------------------------------------

\* how many pages the list of matching messages has at most, and how many
\* messages a page holds at most
MaxPages == 2

MaxPerPage == 2

\* where the text of a message is: in a text/plain part, in the body of the
\* payload, or nowhere
BodyKinds == {"part", "payload", "none"}

\* the pages of a mailbox: each page a list of messages, each message the
\* kind of its body; every page but the last carries a nextPageToken
Pages == UNION {[1..n -> BodyKinds] : n \in 0..MaxPerPage}

Mailboxes == UNION {[1..p -> Pages] : p \in 1..MaxPages}

\* the id of the message at position k of page p
MessageId(p, k) == <<p, k>>

\* the response of messages().list for the page of a token: the ids of the
\* page and the token of the next page, 0 when there is none
ListResponse(pages, token) ==
  [messages |-> [k \in DOMAIN pages[token] |-> MessageId(token, k)],
   nextPageToken |-> IF token < Len(pages) THEN token + 1 ELSE 0]

VARIABLES
  mailbox,        \* the pages of matching messages the Gmail API holds
  list_calls,     \* the page tokens of the list calls made, in order
  page_messages,  \* fetch_flight_emails: the messages of the list response
  message_pos,    \* fetch_flight_emails: position of the loop of line 85
  fetched_emails, \* fetch_flight_emails: the list "emails"
  gmail_returned, \* what fetch_flight_emails returned
  gpc             \* "list", "get", "returned" or "failed"

gmailVars ==
  <<mailbox, list_calls, page_messages, message_pos, fetched_emails, gmail_returned, gpc>>

GmailOff ==
  /\ mailbox = <<>> /\ list_calls = <<>> /\ page_messages = <<>> /\ message_pos = 1
  /\ fetched_emails = <<>> /\ gmail_returned = <<>> /\ gpc = "off"

GmailInit ==
  /\ mailbox \in Mailboxes
  /\ list_calls = <<>>
  /\ page_messages = <<>>
  /\ message_pos = 1
  /\ fetched_emails = <<>>
  /\ gmail_returned = <<>>
  /\ gpc = "list"

\* lines 132-134: an exception of the API is caught and [] is returned
GmailFailed ==
  /\ gmail_returned' = <<>>
  /\ gpc' = "failed"

\* lines 79-83: the one list call, with no pageToken: the first page. The
\* nextPageToken of the response is not read.
GmailList ==
  /\ gpc = "list"
  /\ list_calls' = Append(list_calls, 1)
  /\ \E ok \in BOOLEAN :
       IF ok
       THEN /\ page_messages' = ListResponse(mailbox, 1).messages
            /\ gpc' = "get"
            /\ UNCHANGED gmail_returned
       ELSE GmailFailed /\ UNCHANGED page_messages
  /\ UNCHANGED <<mailbox, message_pos, fetched_emails>>

\* lines 85-128: the next message is fetched; it is appended unless it has
\* no readable body
GmailGet ==
  /\ gpc = "get"
  /\ message_pos <= Len(page_messages)
  /\ \E ok \in BOOLEAN :
       IF ok
       THEN LET id   == page_messages[message_pos]
                kind == mailbox[id[1]][id[2]]
            IN /\ fetched_emails' =
                    IF kind = "none" THEN fetched_emails ELSE Append(fetched_emails, id)
               /\ message_pos' = message_pos + 1
               /\ UNCHANGED <<gmail_returned, gpc>>
       ELSE GmailFailed /\ UNCHANGED <<fetched_emails, message_pos>>
  /\ UNCHANGED <<mailbox, list_calls, page_messages>>

\* line 130: return emails
GmailReturn ==
  /\ gpc = "get"
  /\ message_pos > Len(page_messages)
  /\ gmail_returned' = fetched_emails
  /\ gpc' = "returned"
  /\ UNCHANGED <<mailbox, list_calls, page_messages, message_pos, fetched_emails>>

\* ------------------------------------------------------------------------
\* src/src/utils/llm_cost.py: estimate_llm_cost
\* ------------------------------------------------------------------------

\* line 13
DEFAULT_CHARS_PER_TOKEN == 4

\* the quotient rounded down
FloorDiv(n, d) == n \div d

\* int(math.ceil(n / d)) for n >= 0 and d > 0
CeilDiv(n, d) == (n + d - 1) \div d

\* line 66: the count when there is no tokenizer: 0 for the empty text
approx_tokens(text) ==
  IF text = <<>> THEN 0 ELSE CeilDiv(Len(text), DEFAULT_CHARS_PER_TOKEN)

\* line 69: what len(tokenizer.encode(text)) may be; the encodings are not
\* part of the repository, two counts stand for them
TokenizerCounts(text) == {Len(text) \div 5, Len(text) \div 3}

\* lines 81-88: _build_email_prompt(email, max_body_chars)
_build_email_prompt(email, max_body_chars) ==
  <<"Y","o","u"," ","a","r","e"," ","g","i","v","e","n"," ","a","n"," ","e","m","a","i","l","."," ","E","x","t","r","a","c","t"," ","f","l","i","g","h","t"," ","d","e","t","a","i","l","s"," ","i","f"," ","p","r","e","s","e","n","t",".","\n","\n">>
  \o EmailPart(email, max_body_chars)

\* max(x, 0)
AtLeastZero(x) == IF x > 0 THEN x ELSE 0

\* the bodies of the emails an estimate is made for
EstimateBodies == {None, Str(<<"a">>), Str(<<"a","b">>), Str(<<"a","b","c">>), Str(<<"H","e","l","l","o">>)}

\* how many emails an estimate is made for at most
MaxEstimated == 2

\* LlmEstimateConfig (lines 39-45), with whether tiktoken gives a tokenizer.
\* A pricing of None counts as a pricing with both rates None.
EstimateConfigs ==
  [max_body_chars : {NoNumber, Number(3)}, expected_output_tokens : {0 - 1, 0, 3},
   prompt_overhead_tokens : {0 - 1, 0, 2}, input_cost_per_million : Rates,
   output_cost_per_million : Rates, tokenizer : BOOLEAN]

VARIABLES
  est_emails,    \* the emails given to estimate_llm_cost
  est_config,    \* the config given to estimate_llm_cost
  token_counts,  \* the tokens counted for each email so far
  input_tokens,  \* estimate_llm_cost: total_input_tokens
  estimate,      \* the LlmCostEstimate returned
  epc            \* "count" or "done"

estimateVars == <<est_emails, est_config, token_counts, input_tokens, estimate, epc>>

NoEstimate ==
  [email_count |-> 0, total_input_tokens |-> 0, total_output_tokens |-> 0,
   input_cost |-> NoNumber, output_cost |-> NoNumber, total_cost |-> NoNumber,
   avg_cost |-> NoNumber]

EstimateOff ==
  /\ est_emails = <<>>
  /\ est_config = [max_body_chars |-> NoNumber, expected_output_tokens |-> 0,
                   prompt_overhead_tokens |-> 0, input_cost_per_million |-> NoNumber,
                   output_cost_per_million |-> NoNumber, tokenizer |-> FALSE]
  /\ token_counts = <<>> /\ input_tokens = 0 /\ estimate = NoEstimate /\ epc = "off"

EstimateInit ==
  /\ est_emails \in UNION {[1..n -> {PromptEmail(body) : body \in EstimateBodies}] :
                             n \in 0..MaxEstimated}
  /\ est_config \in EstimateConfigs
  /\ token_counts = <<>>
  /\ input_tokens = 0
  /\ estimate = NoEstimate
  /\ epc = "count"

\* lines 63-69: _estimate_tokens_for_text, the counts it may return
_estimate_tokens_for_text(text, tokenizer) ==
  IF tokenizer THEN TokenizerCounts(text) ELSE {approx_tokens(text)}

\* lines 99-103: the tokens of the prompt of the next email are added
EstimateCount ==
  /\ epc = "count"
  /\ Len(token_counts) < Len(est_emails)
  /\ LET email == est_emails[Len(token_counts) + 1]
     IN \E tokens \in _estimate_tokens_for_text(
                        _build_email_prompt(email, est_config.max_body_chars),
                        est_config.tokenizer) :
          /\ token_counts' = Append(token_counts, tokens)
          /\ input_tokens' = input_tokens + tokens + AtLeastZero(est_config.prompt_overhead_tokens)
  /\ UNCHANGED <<est_emails, est_config, estimate, epc>>

\* lines 105-133: the totals and, with both rates, the costs (a cost is kept
\* as tokens times rate, that is in millionths; the average in whole millionths)
EstimateFinish ==
  /\ epc = "count"
  /\ Len(token_counts) = Len(est_emails)
  /\ LET email_count         == Len(est_emails)
         total_output_tokens == AtLeastZero(est_config.expected_output_tokens) * email_count
         priced == est_config.input_cost_per_million.set /\ est_config.output_cost_per_million.set
         input_cost  == input_tokens * est_config.input_cost_per_million.n
         output_cost == total_output_tokens * est_config.output_cost_per_million.n
     IN estimate' =
          [email_count |-> email_count, total_input_tokens |-> input_tokens,
           total_output_tokens |-> total_output_tokens,
           input_cost |-> IF priced THEN Number(input_cost) ELSE NoNumber,
           output_cost |-> IF priced THEN Number(output_cost) ELSE NoNumber,
           total_cost |-> IF priced THEN Number(input_cost + output_cost) ELSE NoNumber,
           avg_cost |-> IF priced
                        THEN Number(IF email_count = 0 THEN 0
                                    ELSE (input_cost + output_cost) \div email_count)
                        ELSE NoNumber]
  /\ epc' = "done"
  /\ UNCHANGED <<est_emails, est_config, token_counts, input_tokens>>

\* ------------------------------------------------------------------------
\* src/src/llm/extractor.py: classify_itinerary_email_llm and
\* extract_flight_info_llm, the calls of client.responses.parse
\* ------------------------------------------------------------------------

LlmOperations == {"classify_itinerary_email_llm", "extract_flight_info_llm"}

\* the message of an API error that says the model takes no temperature
UnsupportedTemperatureMessage ==
  <<"U","n","s","u","p","p","o","r","t","e","d"," ","p","a","r","a","m","e","t","e","r",":"," ","'","t","e","m","p","e","r","a","t","u","r","e","'"," ","i","s"," ","n","o","t"," ","s","u","p","p","o","r","t","e","d"," ","w","i","t","h"," ","t","h","i","s"," ","m","o","d","e","l",".">>

\* str(exc) of the errors of the API
ErrorMessages ==
  { UnsupportedTemperatureMessage,
    <<"I","n","v","a","l","i","d"," ","v","a","l","u","e"," ","f","o","r"," ","'","t","e","m","p","e","r","a","t","u","r","e","'",":"," ","m","u","s","t"," ","b","e"," ","b","e","t","w","e","e","n"," ","0"," ","a","n","d"," ","2",".">>,
    <<"U","n","s","u","p","p","o","r","t","e","d"," ","p","a","r","a","m","e","t","e","r",":"," ","'","t","o","p","_","p","'"," ","i","s"," ","n","o","t"," ","s","u","p","p","o","r","t","e","d"," ","w","i","t","h"," ","t","h","i","s"," ","m","o","d","e","l",".">>,
    <<"T","e","m","p","e","r","a","t","u","r","e"," ","i","s"," ","N","o","t"," ","S","u","p","p","o","r","t","e","d",".">> }

\* what a call of client.responses.parse may do: return a response with or
\* without output_parsed, raise BadRequestError, or raise another error of
\* the API client, whatever its message
ApiResponse(output_parsed) ==
  [kind |-> "response", parsed |-> output_parsed, message |-> <<>>]

ApiError(kind, message) == [kind |-> kind, parsed |-> FALSE, message |-> message]

ApiOutcomes ==
  {ApiResponse(output_parsed) : output_parsed \in BOOLEAN}
  \cup {ApiError("BadRequestError", message) : message \in ErrorMessages}
  \cup {ApiError("RateLimitError", UnsupportedTemperatureMessage)}

\* the emails and the caps the two functions are called with
LlmEmails == {PromptEmail(Str(<<"H","e","l","l","o">>)), PromptEmail(None)}

LlmCaps == {NoNumber, Number(3)}

VARIABLES
  operation,     \* which of the two functions is called
  llm_email,     \* its email argument
  llm_cap,       \* its max_body_chars argument
  deps_installed,     \* can openai and pydantic be imported
  api_calls,     \* the calls of client.responses.parse made, in order
  llm_returned,  \* what the function returned or raised
  lpc            \* "import", "first", "second", "return" or "done"

llmVars == <<operation, llm_email, llm_cap, deps_installed, api_calls, llm_returned, lpc>>

NotReturned == [kind |-> "running", error |-> "", message |-> <<>>]

LlmOff ==
  /\ operation = "" /\ llm_email = PromptEmail(None) /\ llm_cap = NoNumber /\ deps_installed = FALSE
  /\ api_calls = <<>> /\ llm_returned = NotReturned /\ lpc = "off"

LlmInit ==
  /\ operation \in LlmOperations
  /\ llm_email \in LlmEmails
  /\ llm_cap \in LlmCaps
  /\ deps_installed \in BOOLEAN
  /\ api_calls = <<>>
  /\ llm_returned = NotReturned
  /\ lpc = "import"

\* lines 72 and 134: the prompt of the operation
PromptOf(op, email, max_body_chars) ==
  IF op = "classify_itinerary_email_llm"
  THEN _build_classification_prompt(email, max_body_chars)
  ELSE _build_prompt(email, max_body_chars)

\* a call of client.responses.parse: is temperature=0 passed, the prompt, and
\* what the call did
ApiCall(with_temperature, prompt, outcome) ==
  [with_temperature |-> with_temperature, prompt |-> prompt, outcome |-> outcome]

LlmRaised(outcome) == [kind |-> "raised", error |-> outcome.kind, message |-> outcome.message]

\* RetriesWithoutTemperature for every message
RetriesAlways(message) == TRUE

\* lines 85 and 147: "temperature" in message and "not supported" in message
RetriesWithoutTemperature(message) ==
  Contains(message, <<"t","e","m","p","e","r","a","t","u","r","e">>) /\ Contains(message, <<"n","o","t"," ","s","u","p","p","o","r","t","e","d">>)

\* lines 59-63 and 116-120: the imports; a failure is raised as RuntimeError
LlmImport ==
  /\ lpc = "import"
  /\ IF deps_installed
     THEN lpc' = "first" /\ UNCHANGED llm_returned
     ELSE /\ lpc' = "done"
          /\ llm_returned' = [kind |-> "raised", error |-> "RuntimeError", message |-> <<>>]
  /\ UNCHANGED <<operation, llm_email, llm_cap, deps_installed, api_calls>>

\* lines 73-95 and 135-157: the call with temperature=0; a BadRequestError
\* whose message has "temperature" and "not supported" in it leads to the
\* call without temperature, every other error leaves the function
LlmFirstCall ==
  /\ lpc = "first"
  /\ \E outcome \in ApiOutcomes :
       /\ api_calls' = <<ApiCall(TRUE, PromptOf(operation, llm_email, llm_cap), outcome)>>
       /\ IF outcome.kind = "response"
          THEN lpc' = "return" /\ UNCHANGED llm_returned
          ELSE IF outcome.kind = "BadRequestError" /\ RetriesWithoutTemperature(outcome.message)
          THEN lpc' = "second" /\ UNCHANGED llm_returned
          ELSE lpc' = "done" /\ llm_returned' = LlmRaised(outcome)
  /\ UNCHANGED <<operation, llm_email, llm_cap, deps_installed>>

\* lines 86-93 and 148-155: the call without temperature, inside the except
\* clause: an error it raises leaves the function
LlmSecondCall ==
  /\ lpc = "second"
  /\ \E outcome \in ApiOutcomes :
       /\ api_calls' = Append(api_calls,
                              ApiCall(FALSE, PromptOf(operation, llm_email, llm_cap), outcome))
       /\ IF outcome.kind = "response"
          THEN lpc' = "return" /\ UNCHANGED llm_returned
          ELSE lpc' = "done" /\ llm_returned' = LlmRaised(outcome)
  /\ UNCHANGED <<operation, llm_email, llm_cap, deps_installed>>

\* lines 97-107 and 159-169: None without output_parsed, else the dict
LlmReturn ==
  /\ lpc = "return"
  /\ llm_returned' = [kind    |-> IF api_calls[Len(api_calls)].outcome.parsed THEN "dict" ELSE "none",
                      error   |-> "",
                      message |-> <<>>]
  /\ lpc' = "done"
  /\ UNCHANGED <<operation, llm_email, llm_cap, deps_installed, api_calls>>

\* ------------------------------------------------------------------------
\* Specifications
\* ------------------------------------------------------------------------

vars == <<filterVars, dedupVars, validateVars, parseVars, classifyVars, processVars,
    promptVars, storageVars, gmailVars, estimateVars, llmVars>>

FilterOff ==
  /\ flagsError = FALSE /\ processed_ids = {} /\ new_emails = <<>> /\ idx = 1
  /\ filtered_emails = <<>> /\ fpc = "off" /\ calls = <<>> /\ returned = <<>>
  /\ fetched = 0 /\ procOutcome = "none"

\* the filtering pipeline: EmailFetcher and process_emails
Init ==
  /\ FilterInit
  /\ DedupOff /\ ValidateOff /\ ParseOff /\ ClassifyOff /\ ProcessOff /\ PromptOff /\
    StorageOff /\ GmailOff /\ EstimateOff /\ LlmOff

Others == <<dedupVars, validateVars, parseVars, classifyVars, processVars, promptVars,
    storageVars, gmailVars, estimateVars, llmVars>>

Next ==
  \/ FetchStart /\ UNCHANGED Others
  \/ FetchClassify /\ UNCHANGED Others
  \/ FetchExtract /\ UNCHANGED Others
  \/ FetchReturn /\ UNCHANGED Others
  \/ ProcessEmails /\ UNCHANGED Others

Spec == Init /\ [][Next]_vars

\* the validators on every string of CodeChars up to MaxCodeLen characters
InitValidate ==
  /\ ValidateInit
  /\ FilterOff /\ DedupOff /\ ParseOff /\ ClassifyOff /\ ProcessOff /\ PromptOff /\
    StorageOff /\ GmailOff /\ EstimateOff /\ LlmOff

OthersValidate == <<filterVars, dedupVars, parseVars, classifyVars, processVars,
    promptVars, storageVars, gmailVars, estimateVars, llmVars>>

NextValidate ==
  \/ ValidateConfirmationCode /\ UNCHANGED OthersValidate
  \/ ValidateFlightNumber /\ UNCHANGED OthersValidate

SpecValidate == InitValidate /\ [][NextValidate]_vars

\* deduplicate_flights on every list of FlightDicts up to MaxFlights flights
InitDedup ==
  /\ DedupInit
  /\ FilterOff /\ ValidateOff /\ ParseOff /\ ClassifyOff /\ ProcessOff /\ PromptOff /\
    StorageOff /\ GmailOff /\ EstimateOff /\ LlmOff

OthersDedup == <<filterVars, validateVars, parseVars, classifyVars, processVars,
    promptVars, storageVars, gmailVars, estimateVars, llmVars>>

NextDedup ==
  \/ Deduplicate /\ UNCHANGED OthersDedup
  \/ DeduplicateAgain /\ UNCHANGED OthersDedup

SpecDedup == InitDedup /\ [][NextDedup]_vars

\* parse_flight_email on every email of ParseEmails
InitParse ==
  /\ ParseInit
  /\ FilterOff /\ DedupOff /\ ValidateOff /\ ClassifyOff /\ ProcessOff /\ PromptOff /\
    StorageOff /\ GmailOff /\ EstimateOff /\ LlmOff

OthersParse == <<filterVars, dedupVars, validateVars, classifyVars, processVars,
    promptVars, storageVars, gmailVars, estimateVars, llmVars>>

NextParse ==
  \/ DetectAirline /\ UNCHANGED OthersParse
  \/ ParseVietjet /\ UNCHANGED OthersParse
  \/ ParseGeneric /\ UNCHANGED OthersParse

SpecParse == InitParse /\ [][NextParse]_vars

\* is_potential_flight_email on every email of ClassifyEmails
InitClassify ==
  /\ ClassifyInit
  /\ FilterOff /\ DedupOff /\ ValidateOff /\ ParseOff /\ ProcessOff /\ PromptOff /\
    StorageOff /\ GmailOff /\ EstimateOff /\ LlmOff

OthersClassify == <<filterVars, dedupVars, validateVars, parseVars, processVars,
    promptVars, storageVars, gmailVars, estimateVars, llmVars>>

NextClassify == Classify /\ UNCHANGED OthersClassify

SpecClassify == InitClassify /\ [][NextClassify]_vars

\* process_stored_emails on every llm_settings and every list of StoredBatches
InitProcess ==
  /\ ProcessInit
  /\ FilterOff /\ DedupOff /\ ValidateOff /\ ParseOff /\ ClassifyOff /\ PromptOff /\
    StorageOff /\ GmailOff /\ EstimateOff /\ LlmOff

OthersProcess == <<filterVars, dedupVars, validateVars, parseVars, classifyVars,
    promptVars, storageVars, gmailVars, estimateVars, llmVars>>

NextProcess ==
  \/ ProcStart /\ UNCHANGED OthersProcess
  \/ ProcClassify /\ UNCHANGED OthersProcess
  \/ ProcParse /\ UNCHANGED OthersProcess
  \/ ProcExtract /\ UNCHANGED OthersProcess
  \/ ProcCollect /\ UNCHANGED OthersProcess
  \/ ProcFinish /\ UNCHANGED OthersProcess

SpecProcess == InitProcess /\ [][NextProcess]_vars

\* the prompts of the LLM on every cap of BodyCaps and every body of PromptBodies
InitPrompt ==
  /\ PromptInit
  /\ FilterOff /\ DedupOff /\ ValidateOff /\ ParseOff /\ ClassifyOff /\ ProcessOff /\
    StorageOff /\ GmailOff /\ EstimateOff /\ LlmOff

OthersPrompt == <<filterVars, dedupVars, validateVars, parseVars, classifyVars,
    processVars, storageVars, gmailVars, estimateVars, llmVars>>

NextPrompt ==
  \/ MainSettings /\ UNCHANGED OthersPrompt
  \/ BuildPrompts /\ UNCHANGED OthersPrompt

SpecPrompt == InitPrompt /\ [][NextPrompt]_vars

\* EmailStorage.load_emails on every directory of stored files
InitStorage ==
  /\ StorageInit
  /\ FilterOff /\ DedupOff /\ ValidateOff /\ ParseOff /\ ClassifyOff /\ ProcessOff /\
    PromptOff /\ GmailOff /\ EstimateOff /\ LlmOff

OthersStorage == <<filterVars, dedupVars, validateVars, parseVars, classifyVars,
    processVars, promptVars, gmailVars, estimateVars, llmVars>>

NextStorage == LoadEmails /\ UNCHANGED OthersStorage

SpecStorage == InitStorage /\ [][NextStorage]_vars

\* fetch_flight_emails on every mailbox of up to MaxPages pages
InitGmail ==
  /\ GmailInit
  /\ FilterOff /\ DedupOff /\ ValidateOff /\ ParseOff /\ ClassifyOff /\ ProcessOff /\
    PromptOff /\ StorageOff /\ EstimateOff /\ LlmOff

OthersGmail == <<filterVars, dedupVars, validateVars, parseVars, classifyVars,
    processVars, promptVars, storageVars, estimateVars, llmVars>>

NextGmail ==
  \/ GmailList /\ UNCHANGED OthersGmail
  \/ GmailGet /\ UNCHANGED OthersGmail
  \/ GmailReturn /\ UNCHANGED OthersGmail

SpecGmail == InitGmail /\ [][NextGmail]_vars

\* the two LLM functions on every outcome of their calls of the API
InitLlm ==
  /\ LlmInit
  /\ FilterOff /\ DedupOff /\ ValidateOff /\ ParseOff /\ ClassifyOff /\ ProcessOff /\
    PromptOff /\ StorageOff /\ GmailOff /\ EstimateOff

OthersLlm == <<filterVars, dedupVars, validateVars, parseVars, classifyVars,
    processVars, promptVars, storageVars, gmailVars, estimateVars>>

NextLlm ==
  \/ LlmImport /\ UNCHANGED OthersLlm
  \/ LlmFirstCall /\ UNCHANGED OthersLlm
  \/ LlmSecondCall /\ UNCHANGED OthersLlm
  \/ LlmReturn /\ UNCHANGED OthersLlm

SpecLlm == InitLlm /\ [][NextLlm]_vars

\* estimate_llm_cost on every config and every list of up to MaxEstimated emails
InitEstimate ==
  /\ EstimateInit
  /\ FilterOff /\ DedupOff /\ ValidateOff /\ ParseOff /\ ClassifyOff /\ ProcessOff /\
    PromptOff /\ StorageOff /\ GmailOff /\ LlmOff

OthersEstimate == <<filterVars, dedupVars, validateVars, parseVars, classifyVars,
    processVars, promptVars, storageVars, gmailVars, llmVars>>

NextEstimate ==
  \/ EstimateCount /\ UNCHANGED OthersEstimate
  \/ EstimateFinish /\ UNCHANGED OthersEstimate

SpecEstimate == InitEstimate /\ [][NextEstimate]_vars

\* ------------------------------------------------------------------------
\* Properties
\* ------------------------------------------------------------------------

\* C1 (gate ordering): in every run of the filtering pipeline, a call of
\* extract_booking_details for an email comes directly after a call of
\* is_potential_flight_email that returned true for that same email, and is
\* never made for an email on which is_potential_flight_email is false.
C1_GateOrdering ==
  \A k \in DOMAIN calls :
    calls[k].fn = "extract_booking_details" =>
      /\ k > 1
      /\ calls[k - 1] = IsPotentialCall(calls[k].e, TRUE)
      /\ PotentialOf(calls[k].e)

\* a run in which extract_booking_details was called for one email and
\* is_potential_flight_email returned false for another
C1_Witness ==
  /\ \E k \in DOMAIN calls : calls[k].fn = "extract_booking_details"
  /\ \E k \in DOMAIN calls : calls[k].fn = "is_potential_flight_email" /\ ~calls[k].ok
  /\ procOutcome # "none"

\* does the lower-cased subject contain an exclusion keyword
SubjectExcluded(subject) ==
  \E kw \in {<<"a","i","r","b","n","b">>, <<"b","o","o","k","i","n","g",".","c","o","m">>, <<"h","o","t","e","l","s",".","c","o","m">>, <<"e","x","p","e","d","i","a">>, <<"r","e","s","e","r","v","a","t","i","o","n"," ","a","t">>,
             <<"h","o","t","e","l">>, <<"a","p","a","r","t","m","e","n","t">>} :
    Contains(StrLower(subject), kw)

\* C2 (exclusion precedence): when the lower-cased subject contains an
\* exclusion keyword, is_potential_flight_email returns false, whatever the
\* sender, the indicator phrases and the flight-number tokens.
C2_ExclusionPrecedence ==
  (classified.done /\ SubjectExcluded(cls_email.subject)) => ~classified.ok

\* the classifier has run on a subject with an exclusion keyword, a strong
\* indicator and a flight-number token, from a sender of the allow-list
C2_Witness ==
  /\ classified.done
  /\ cls_email.subject = <<"Y","o","u","r"," ","h","o","t","e","l"," ","f","l","i","g","h","t"," ","c","o","n","f","i","r","m","a","t","i","o","n"," ","V","J","1","2","3">>
  /\ cls_email.from = <<"d","e","a","l","s","@","a","i","r","a","s","i","a",".","c","o","m">>
  /\ ~classified.ok

\* the score of the claim for a raw email, in tenths: 4 for a valid
\* confirmation code, 4 for a valid flight number, 2 for the flight-word context
ScoreTable ==
  {<<e, (IF confirmation_codes(RawEmails[e].subject \o <<"\n">> \o RawEmails[e].body) # <<>>
         THEN 4 ELSE 0)
        + (IF flight_numbers(RawEmails[e].subject \o <<"\n">> \o RawEmails[e].body) # <<>>
           THEN 4 ELSE 0)
        + (IF context_found(flight_numbers(RawEmails[e].subject \o <<"\n">> \o RawEmails[e].body),
                            RawEmails[e].subject \o <<"\n">> \o RawEmails[e].body)
           THEN 2 ELSE 0)>> : e \in EmailIdx}

ScoreOf(e) == (CHOOSE row \in ScoreTable : row[1] = e)[2]

\* C3 (scoring rule): extract_booking_details returns a match iff the score
\* is at least 0.6 and none otherwise, and the confidence of a match is
\* min(1.0, score).
C3_ScoringRule ==
  \A k \in DOMAIN calls :
    calls[k].fn = "extract_booking_details" =>
      /\ calls[k].res.kind = (IF ScoreOf(calls[k].e) >= 6 THEN "match" ELSE "none")
      /\ calls[k].res.kind = "match" =>
           calls[k].res.confidence = Min(10, ScoreOf(calls[k].e))

\* C4 (validate_confirmation_code): a string is accepted iff it has exactly
\* 6 characters, each an upper-case letter or a digit, with at least one
\* letter and at least one digit.
C4_ConfirmationCodeRule ==
  verdict.fn = "validate_confirmation_code" =>
    (verdict.ok <=>
       /\ Len(candidate) = 6
       /\ \A i \in 1..Len(candidate) : candidate[i] \in Upper \cup Digit
       /\ \E i \in 1..Len(candidate) : candidate[i] \in Upper
       /\ \E i \in 1..Len(candidate) : candidate[i] \in Digit)

\* C5 (validate_flight_number): a string is accepted iff it is two upper-case
\* letters of the airline-code allow-list followed by 3 or 4 digits, and
\* nothing else.
C5_FlightNumberRule ==
  verdict.fn = "validate_flight_number" =>
    (verdict.ok <=>
       /\ Len(candidate) \in {5, 6}
       /\ \A i \in 1..2 : candidate[i] \in Upper
       /\ \A i \in 3..Len(candidate) : candidate[i] \in Digit
       /\ SubSeq(candidate, 1, 2) \in AIRLINE_CODES)

\* did the VietJet parser's patterns find a flight number and both airports
VietjetFound(body) ==
  /\ FirstMatch(vietjet_flight_patterns, body) # <<>>
  /\ FirstMatch(vietjet_airport_patterns, body) # <<>>

\* C6 (VietJet parser): when the detected airline is VietJet Air, the record
\* of the specialized parser is returned iff it found a flight number and both
\* airports; the record has airline "VietJet Air", the flight number without
\* any whitespace in it, the labelled airports, the matched date or "", and
\* arrival_datetime "".
C6_VietjetRecord ==
  (ppc \in {"generic", "done"} /\ detected = VietJetAir) =>
    /\ (vietjet_result # NoFlightInfo) <=> VietjetFound(parse_email.body)
    /\ vietjet_result # NoFlightInfo =>
         /\ ppc = "done" /\ parsed = vietjet_result
         /\ parsed.airline = VietJetAir
         /\ \A i \in 1..Len(parsed.flight_number) : parsed.flight_number[i] \notin Space
         /\ parsed.arrival_datetime = <<>>
         /\ Contains(parse_email.body, <<"F","r","o","m",":"," ","S","G","N"," ","T","o",":"," ","H","A","N">>) =>
              parsed.departure_airport = <<"S","G","N">> /\ parsed.arrival_airport = <<"H","A","N">>
         /\ parsed.departure_datetime =
              OrEmpty(GroupOrNone(parse_email.body,
                                  FirstMatch(date_patterns, parse_email.body), 1)).s

\* the text the generic parser searches
GenericText == parse_email.body \o <<" ">> \o parse_email.subject

\* some flight pattern found a candidate with a letter in it
GenericFlightFound ==
  \E k \in 1..3 : FlightCandidates(GenericText)[k] # <<>>
                  /\ \E i \in 1..Len(FlightCandidates(GenericText)[k]) :
                       FlightCandidates(GenericText)[k][i] \in Letter

\* some airport pattern found a pair of two different codes
GenericPairFound ==
  \E k \in 1..3 : AirportCandidates(GenericText)[k] # <<>>
                  /\ AirportCandidates(GenericText)[k][1] # AirportCandidates(GenericText)[k][2]

\* C7 (generic parser): when no specialized parser produced a record,
\* parse_flight_email returns a record iff the generic parser found a flight
\* number candidate with a letter in it and a pair of different airport codes;
\* the record has a flight number with a letter and no space and two different
\* codes, and "Flight: AA 123" with "From: JFK To: LAX" gives AA123, JFK, LAX.
C7_GenericRecord ==
  (ppc = "done" /\ vietjet_result = NoFlightInfo) =>
    /\ (parsed # NoFlightInfo) <=> (GenericFlightFound /\ GenericPairFound)
    /\ parsed # NoFlightInfo =>
         /\ \E i \in 1..Len(parsed.flight_number) : parsed.flight_number[i] \in Letter
         /\ \A i \in 1..Len(parsed.flight_number) : parsed.flight_number[i] # " "
         /\ parsed.departure_airport # parsed.arrival_airport
    /\ (/\ Contains(parse_email.body, <<"F","l","i","g","h","t",":"," ","A","A"," ","1","2","3","\n">>)
        /\ Contains(parse_email.body, <<"F","r","o","m",":"," ","J","F","K"," ","T","o",":"," ","L","A","X","\n">>)) =>
         /\ parsed # NoFlightInfo
         /\ parsed.flight_number = <<"A","A","1","2","3">>
         /\ parsed.departure_airport = <<"J","F","K">>
         /\ parsed.arrival_airport = <<"L","A","X">>

\* the generic parser returned AA123 from JFK to LAX
C7_Witness ==
  /\ ppc = "done" /\ vietjet_result = NoFlightInfo
  /\ Contains(parse_email.body, <<"F","l","i","g","h","t",":"," ","A","A"," ","1","2","3","\n">>)
  /\ parsed # NoFlightInfo
  /\ parsed.flight_number = <<"A","A","1","2","3">>
  /\ parsed.departure_airport = <<"J","F","K">>
  /\ parsed.arrival_airport = <<"L","A","X">>

\* the fields of a flight that hold a non-empty string
NonEmptyCount(flight) == Cardinality({k \in FlightFields : flight[k].tag = "str" /\ flight[k].s # <<>>})

\* has the flight a non-empty flight_number and a non-empty departure_datetime
BothPresent(flight) ==
  /\ flight["flight_number"].tag = "str" /\ flight["flight_number"].s # <<>>
  /\ flight["departure_datetime"].tag = "str" /\ flight["departure_datetime"].s # <<>>

\* C8 (completeness preference): of the input records that share a dedup key,
\* the output holds one that has no fewer non-empty fields than any of them.
C8_CompletenessPreference ==
  dpc # "input" =>
    \A i \in DOMAIN flight_list :
      BothPresent(flight_list[i]) =>
        \E k \in DOMAIN deduped :
          /\ DedupKey(deduped[k]) = DedupKey(flight_list[i])
          /\ NonEmptyCount(deduped[k]) >= NonEmptyCount(flight_list[i])

\* C9 (idempotence): deduplicate_flights on its own output returns the same
\* records in the same order.
C9_Idempotent == dpc = "twice" => deduped2 = deduped

\* deduplicate_flights ran twice on a list of which it merged two records and
\* kept two, both of the same departure_datetime
C9_Witness ==
  /\ dpc = "twice"
  /\ Len(flight_list) = 3
  /\ Len(deduped) = 2
  /\ deduped2 = deduped
  /\ deduped[1] # deduped[2]
  /\ deduped[1]["departure_datetime"] = deduped[2]["departure_datetime"]

\* C10 (drop rule): no record of the output lacks flight_number or
\* departure_datetime, and every input record that has both has a record of
\* the same dedup key in the output.
C10_DropRule ==
  dpc # "input" =>
    /\ \A k \in DOMAIN deduped : BothPresent(deduped[k])
    /\ \A i \in DOMAIN flight_list :
         BothPresent(flight_list[i]) =>
           \E k \in DOMAIN deduped : DedupKey(deduped[k]) = DedupKey(flight_list[i])

\* deduplicate_flights dropped a record without departure_datetime and one
\* without flight_number, and kept a third
C10_Witness ==
  /\ dpc = "once"
  /\ Len(flight_list) = 3
  /\ Len(deduped) = 1
  /\ \E i \in DOMAIN flight_list : ~Truthy(Get(flight_list[i], "flight_number"))
  /\ \E i \in DOMAIN flight_list : ~Truthy(Get(flight_list[i], "departure_datetime"))

\* C11 (unique and sorted): the output of deduplicate_flights holds at most
\* one record per dedup key, and the departure_datetime strings of its
\* records never decrease from one record to the next.
C11_UniqueAndSorted ==
  dpc # "input" =>
    /\ \A i, j \in DOMAIN deduped :
         DedupKey(deduped[i]) = DedupKey(deduped[j]) => i = j
    /\ \A i \in DOMAIN deduped :
         i > 1 => ~StrLess(deduped[i]["departure_datetime"].s, deduped[i - 1]["departure_datetime"].s)

\* deduplicate_flights merged two records of one key and moved a record of an
\* earlier departure_datetime, given last, to the front
C11_Witness ==
  /\ dpc = "once"
  /\ Len(flight_list) = 3
  /\ Len(deduped) = 2
  /\ DedupKey(flight_list[1]) = DedupKey(flight_list[2])
  /\ StrLess(SortKey(flight_list[3]), SortKey(flight_list[1]))
  /\ deduped[1] = flight_list[3]

\* the calls of the LLM made so far
LlmCallsMade ==
  {k \in DOMAIN llm_calls :
     llm_calls[k].fn \in {"classify_itinerary_email_llm", "extract_flight_info_llm"}}

\* C12 (pricing gate): when LLM extraction or LLM classification is asked for
\* and the input rate or the output rate is unset, process_stored_emails has
\* returned, with no flights, as soon as it has started, and it has made no
\* call of the LLM, whatever emails were loaded.
C12_PricingGate ==
  ( /\ pspc \notin {"off", "start"}
    /\ llm_settings.given
    /\ llm_settings.use_extraction \/ llm_settings.classify_itinerary
    /\ ~llm_settings.input_cost_per_million.set \/ ~llm_settings.output_cost_per_million.set )
  => /\ pspc = "done"
     /\ proc_result.kind = "returned"
     /\ proc_result.flights = <<>>
     /\ LlmCallsMade = {}

\* a run that everything but the output rate would let through (approved, not
\* a dry run, with an API key) has stopped at the pricing gate, with two emails
C12_Witness ==
  /\ pspc = "done"
  /\ proc_result = Returned("pricing", <<>>)
  /\ Len(emails) = 2
  /\ llm_settings.use_extraction
  /\ llm_settings.input_cost_per_million.set
  /\ ~llm_settings.output_cost_per_million.set
  /\ llm_settings.auto_approve /\ ~llm_settings.dry_run
  /\ llm_settings.api_key # None
  /\ llm_calls = <<>>

\* no LLM call is made unless confirm_llm_run was called and returned true;
\* a dry run, and a run without auto-approve and without a terminal, end
\* without a prompt
ConfirmedBeforeLlm ==
  /\ LlmCallsMade # {} => confirm_call.called /\ confirm_call.result
  /\ (confirm_call.called /\ llm_settings.dry_run) => ~confirm_call.result /\ pspc = "done"
  /\ (confirm_call.called /\ ~llm_settings.dry_run /\ ~llm_settings.auto_approve /\ ~confirm_call.isatty)
       => ~confirm_call.result /\ ~confirm_call.prompted /\ pspc = "done"

\* C13 (confirmation gate, as stated): confirm_llm_run returns true iff
\* dry_run is false and (auto_approve is true, or standard input is a terminal
\* and the line typed is "y" or "yes"); a dry run always halts, a run without
\* a terminal and without auto-approve halts without a prompt, and no LLM
\* call is made unless confirm_llm_run returned true.
C13_ConfirmationGateAsTyped ==
  /\ confirm_call.called =>
       ( confirm_call.result <=>
           /\ ~llm_settings.dry_run
           /\ \/ llm_settings.auto_approve
              \/ confirm_call.isatty /\ confirm_call.answer \in {<<"y">>, <<"y","e","s">>} )
  /\ ConfirmedBeforeLlm

\* C13 (confirmation gate, amended): confirm_llm_run returns true iff dry_run
\* is false and (auto_approve is true, or standard input is a terminal and
\* the line typed, without its leading and trailing whitespace and in lower
\* case, is "y" or "yes"); a dry run always halts, a run without a terminal
\* and without auto-approve halts without a prompt, and no LLM call is made
\* unless confirm_llm_run returned true.
C13_ConfirmationGate ==
  /\ confirm_call.called =>
       ( confirm_call.result <=>
           /\ ~llm_settings.dry_run
           /\ \/ llm_settings.auto_approve
              \/ /\ confirm_call.isatty
                 /\ StrLower(StrStrip(confirm_call.answer)) \in {<<"y">>, <<"y","e","s">>} )
  /\ ConfirmedBeforeLlm

\* a run without auto-approve was confirmed at the prompt with " Yes " and
\* went on to a call of the LLM
C13_Witness ==
  /\ confirm_call.called
  /\ ~llm_settings.auto_approve /\ ~llm_settings.dry_run
  /\ confirm_call.prompted
  /\ confirm_call.answer = <<" ","Y","e","s"," ">>
  /\ confirm_call.result
  /\ LlmCallsMade # {}

\* C14 (LLM fallback ordering): every call of extract_flight_info_llm comes
\* right after a call of parse_flight_email that returned None for the same
\* email, in a run with use_extraction set; no email for which
\* parse_flight_email returned a record has a call of extract_flight_info_llm,
\* and the flight_dict of such an email is the record of the parser.
C14_LlmFallbackOrdering ==
  /\ \A k \in DOMAIN llm_calls :
       llm_calls[k].fn = "extract_flight_info_llm" =>
         /\ llm_settings.given /\ llm_settings.use_extraction
         /\ k > 1
         /\ llm_calls[k - 1] = LlmCall("parse_flight_email", llm_calls[k].pos, "none")
  /\ \A k \in DOMAIN llm_calls :
       (llm_calls[k].fn = "parse_flight_email" /\ llm_calls[k].out = "record") =>
         /\ \A j \in DOMAIN llm_calls :
              llm_calls[j].fn = "extract_flight_info_llm" => llm_calls[j].pos # llm_calls[k].pos
         /\ (pspc = "collect" /\ email_pos = llm_calls[k].pos) =>
              flight_dict = <<to_dict(ParseOf(emails[email_pos]))>>

\* the parser returned a record for the first email, which was collected with
\* no call of the LLM, and None for the second, for which the LLM extractor
\* was then called
C14_Witness ==
  /\ llm_settings.use_extraction /\ ~llm_settings.classify_itinerary
  /\ llm_calls = << LlmCall("parse_flight_email", 1, "record"),
                    LlmCall("parse_flight_email", 2, "none"),
                    LlmCall("extract_flight_info_llm", 2, "dict") >>
  /\ flight_info_list = <<to_dict(ParseOf(emails[1]))>>
  /\ flight_dict = <<LlmFlight>>

\* how many characters of the body a prompt holds: its length less the
\* length of the prompt of the same email with an empty body
EmbeddedBodyLen(prompt, instructions) ==
  Len(prompt) - Len(instructions \o EmailPart(PromptEmail(Str(<<>>)), NoNumber))

\* the most characters a cap allows: none for zero and for a negative number
CapOf(cap) == IF cap.n > 0 THEN cap.n ELSE 0

C15_PositiveCapsBound ==
  bpc = "built" =>
    /\ caps.max_body_chars.n > 0 =>
         EmbeddedBodyLen(prompts.extraction, ExtractionInstructions) <= caps.max_body_chars.n
    /\ caps.classify_max_body_chars.n > 0 =>
         EmbeddedBodyLen(prompts.classification, ClassificationInstructions)
           <= caps.classify_max_body_chars.n

\* C16 (hard stop on LLM failure): a call of the LLM that failed is the last
\* call of the run: process_stored_emails has ended, with no flights or with
\* the exception, and neither parse_flight_email nor the LLM is called for a
\* later email.
C16_HardStop ==
  \A k \in LlmCallsMade :
    llm_calls[k].out \in {"RuntimeError", "APIError"} =>
      /\ k = Len(llm_calls)
      /\ pspc = "done"
      /\ proc_result.flights = <<>>
      /\ proc_result.kind = IF llm_calls[k].out = "RuntimeError" THEN "returned" ELSE "raised"

\* the LLM extraction failed for the first of two emails, and the run ended there
C16_Witness ==
  /\ Len(emails) = 2
  /\ llm_calls = << LlmCall("parse_flight_email", 1, "none"),
                    LlmCall("extract_flight_info_llm", 1, "RuntimeError") >>
  /\ pspc = "done"
  /\ proc_result = Returned("extraction failed", <<>>)

\* C17 (no exception escapes): every call of extract_booking_details returns
\* a match or None, and the call of is_potential_flight_email that
\* process_emails makes returns; neither raises.
C17_NoException ==
  /\ \A k \in DOMAIN calls :
       calls[k].fn = "extract_booking_details" => calls[k].res.kind \in {"match", "none"}
  /\ procOutcome # "TypeError"

\* the emails of a stored file when it is a file of the year, else none
EmailsOfYear(file, year) ==
  IF file.present /\ file.year = year THEN file.emails ELSE <<>>

\* C18 (read-back by year): load_emails(year=Y) returns the emails of the
\* files of year Y of the storage directory, in the order of the file names,
\* and no other email.
C18_ReadBackByYear ==
  (spc = "loaded" /\ load_request.year.set /\ load_request.specific_file = NoPath) =>
    loaded = EmailsOfYear(storage_files[1], load_request.year.n)
             \o EmailsOfYear(storage_files[2], load_request.year.n)
             \o EmailsOfYear(storage_files[3], load_request.year.n)

\* C19 (read-back by file name): load_emails(specific_file=F) returns the
\* emails stored in F, when F is the absolute path of a file that exists and
\* when F is the bare name of a file of the storage directory.
C19_ReadBackByFile ==
  (spc = "loaded" /\ load_request.specific_file # NoPath) =>
    LET path == load_request.specific_file[1]
        k    == CHOOSE k \in DOMAIN FileNames : FileNames[k] = path.name
    IN storage_files[k].present => loaded = storage_files[k].emails

\* the messages of the pages from page p on that have a readable body, in order
RECURSIVE ReadableFrom(_, _)
ReadableFrom(pages, p) ==
  IF p > Len(pages) THEN <<>>
  ELSE SelectSeq(ListResponse(pages, p).messages, LAMBDA id : pages[id[1]][id[2]] # "none")
       \o ReadableFrom(pages, p + 1)

\* C20 (pagination): when fetch_flight_emails returns, it has made one list
\* call for each page, in the order of the pages, and it returns the emails
\* of all pages in that order.
C20_Pagination ==
  gpc = "returned" =>
    /\ list_calls = [p \in 1..Len(mailbox) |-> p]
    /\ gmail_returned = ReadableFrom(mailbox, 1)

\* the sum of the numbers of a sequence
RECURSIVE SumOf(_)
SumOf(numbers) == IF numbers = <<>> THEN 0 ELSE Head(numbers) + SumOf(Tail(numbers))

\* k is the least whole number that is at least n / 4
IsCeilOfQuarter(k, n) == 4 * k >= n /\ 4 * (k - 1) < n

\* C21 (token estimate): with no tokenizer, the count of a text is the ceiling
\* of its length over 4 (0 for the empty text), and estimate_llm_cost reports
\* the number of emails, the sum over the emails of that count for the prompt
\* plus max(prompt overhead, 0), max(expected output tokens, 0) times the
\* number of emails, and a total cost and an average cost exactly when both
\* rates are set.
C21_TokenEstimate ==
  /\ \A text \in {<<>>, <<"a","b","c","d">>, <<"a","b","c","d","e">>} : IsCeilOfQuarter(approx_tokens(text), Len(text))
  /\ (epc = "done" /\ ~est_config.tokenizer) =>
       /\ estimate.email_count = Len(est_emails)
       /\ \A i \in DOMAIN est_emails :
            IsCeilOfQuarter(token_counts[i],
                            Len(_build_email_prompt(est_emails[i], est_config.max_body_chars)))
       /\ estimate.total_input_tokens =
            SumOf(token_counts)
            + Len(est_emails) * (IF est_config.prompt_overhead_tokens > 0
                                 THEN est_config.prompt_overhead_tokens ELSE 0)
       /\ estimate.total_output_tokens =
            Len(est_emails) * (IF est_config.expected_output_tokens > 0
                               THEN est_config.expected_output_tokens ELSE 0)
       /\ estimate.total_cost.set <=>
            (est_config.input_cost_per_million.set /\ est_config.output_cost_per_million.set)
       /\ estimate.avg_cost.set <=> estimate.total_cost.set

\* an estimate for two emails whose prompts count differently, with no
\* tokenizer, a negative overhead and both rates set
C21_Witness ==
  /\ epc = "done"
  /\ ~est_config.tokenizer
  /\ Len(est_emails) = 2
  /\ token_counts[1] # token_counts[2]
  /\ est_config.prompt_overhead_tokens < 0
  /\ est_config.expected_output_tokens = 3
  /\ estimate.total_output_tokens = 6
  /\ estimate.total_input_tokens = token_counts[1] + token_counts[2]
  /\ estimate.total_cost.set

\* the records of the input that have the dedup key of record i
SameKeyAs(i) ==
  {j \in DOMAIN flight_list :
     BothPresent(flight_list[j]) /\ DedupKey(flight_list[j]) = DedupKey(flight_list[i])}

\* C22 (tie rule): when records of the input share a dedup key and none of
\* them has strictly more filled fields (fields that are not None, as
\* _count_filled_fields counts them) than record i, and i is the first of the
\* records as filled as it, the output of deduplicate_flights keeps record i
\* under that key.
C22_TieKeepsFirst ==
  dpc # "input" =>
    \A i \in DOMAIN flight_list :
      ( /\ BothPresent(flight_list[i])
        /\ \A j \in SameKeyAs(i) : CountNotNone(flight_list[j]) <= CountNotNone(flight_list[i])
        /\ \A j \in SameKeyAs(i) :
             CountNotNone(flight_list[j]) = CountNotNone(flight_list[i]) => i <= j )
      => /\ \E k \in DOMAIN deduped : deduped[k] = flight_list[i]
         /\ \A k \in DOMAIN deduped :
              DedupKey(deduped[k]) = DedupKey(flight_list[i]) => deduped[k] = flight_list[i]

\* deduplicate_flights was given two different records of one key that are
\* equally filled, and kept the first
C22_Witness ==
  /\ dpc = "once"
  /\ Len(flight_list) = 2
  /\ BothPresent(flight_list[1])
  /\ BothPresent(flight_list[2])
  /\ DedupKey(flight_list[1]) = DedupKey(flight_list[2])
  /\ CountNotNone(flight_list[1]) = CountNotNone(flight_list[2])
  /\ flight_list[1] # flight_list[2]
  /\ deduped = <<flight_list[1]>>

\* for a raw email: the score of its identifiers alone, in tenths, whether the
\* word "flight" is found next to its first flight number, and whether it is
\* found next to a later one
ContextRow(e, full_text, codes, fns) ==
  [e     |-> e,
   base  |-> (IF codes # <<>> THEN 4 ELSE 0) + (IF fns # <<>> THEN 4 ELSE 0),
   found |-> fns # <<>>,
   first |-> fns # <<>> /\ Found(Search(ContextPattern(fns[1]), full_text)),
   later |-> \E k \in 2..Len(fns) : Found(Search(ContextPattern(fns[k]), full_text))]

ContextTable ==
  UNION { UNION { { ContextRow(e, t, c, f) :
                      c \in {confirmation_codes(t)}, f \in {flight_numbers(t)} } :
                    t \in {RawEmails[e].subject \o <<"\n">> \o RawEmails[e].body} } :
            e \in EmailIdx }

ContextOf(e) == CHOOSE row \in ContextTable : row.e = e

\* C23 (context of the first flight number only): when the word "flight" is
\* not within 50 characters of the first flight number found, what
\* extract_booking_details returns has no context bonus in it: the score is
\* that of the identifiers alone, also when a later flight number has the word
\* within 50 characters.
C23_FirstFlightNumberOnly ==
  \A k \in DOMAIN calls :
    ( /\ calls[k].fn = "extract_booking_details"
      /\ calls[k].res.kind # "raise"
      /\ ContextOf(calls[k].e).found
      /\ ~ContextOf(calls[k].e).first )
    => /\ calls[k].res.kind = (IF ContextOf(calls[k].e).base >= 6 THEN "match" ELSE "none")
       /\ calls[k].res.kind = "match" =>
            calls[k].res.confidence = Min(10, ContextOf(calls[k].e).base)

\* the calls of parse_flight_email and of extract_flight_info_llm made for
\* the email at position p
HandledCalls(p) ==
  {k \in DOMAIN llm_calls :
     llm_calls[k].pos = p /\ llm_calls[k].fn \in {"parse_flight_email", "extract_flight_info_llm"}}

\* the rule of the claim on what classify_itinerary_email_llm returned
SkipRule(decision) ==
  /\ decision.kind = "decision"
  /\ ~decision.is_itinerary
  /\ (IF decision.confidence.set THEN decision.confidence.n ELSE 0) >= 6

\* C24 (LLM filter skip rule): an email whose classification returned is
\* skipped, with no call of parse_flight_email and none of
\* extract_flight_info_llm, if and only if the decision exists, is_itinerary
\* is false and the confidence (0 when missing) is at least the threshold, 0.6
\* by default; every other email, and every email of a run without the LLM
\* filter, goes on to parse_flight_email.
C24_SkipRule ==
  /\ \A p \in DOMAIN decisions :
       decisions[p].kind \in {"decision", "none"} =>
         IF SkipRule(decisions[p])
         THEN HandledCalls(p) = {} /\ (email_pos > p \/ pspc = "dedup" \/ pspc = "done")
         ELSE \/ pspc = "parse" /\ email_pos = p
              \/ \E k \in HandledCalls(p) : llm_calls[k].fn = "parse_flight_email"
  /\ ~(llm_settings.given /\ llm_settings.classify_itinerary) =>
       /\ decisions = <<>>
       /\ \A p \in DOMAIN emails :
            (p < email_pos \/ pspc = "dedup") =>
              \E k \in HandledCalls(p) : llm_calls[k].fn = "parse_flight_email"

\* a run whose first email was skipped on a confidence equal to the threshold
\* and whose second email, not an itinerary on a confidence below it, was parsed
C24_Witness ==
  /\ Len(decisions) = 2
  /\ decisions[1] = [kind |-> "decision", is_itinerary |-> FALSE, confidence |-> Number(6)]
  /\ decisions[2] = [kind |-> "decision", is_itinerary |-> FALSE, confidence |-> Number(5)]
  /\ HandledCalls(1) = {}
  /\ HandledCalls(2) # {}
  /\ proc_result.kind = "returned"

\* C25 (temperature fallback): for one email and one operation
\* client.responses.parse is called at most twice; the first call passes the
\* temperature, a second call is made, without the temperature and with the
\* same prompt, only after a first call rejected with a BadRequestError that
\* says the temperature is not supported; every other error of the first
\* call and every error of the second call leaves the function as it is, and
\* no call follows it.
C25_TemperatureFallback ==
  /\ Len(api_calls) <= 2
  /\ Len(api_calls) >= 1 => api_calls[1].with_temperature
  /\ Len(api_calls) = 2 =>
       /\ ~api_calls[2].with_temperature
       /\ api_calls[2].prompt = api_calls[1].prompt
       /\ api_calls[1].outcome = ApiError("BadRequestError", UnsupportedTemperatureMessage)
  /\ \A k \in DOMAIN api_calls :
       ( /\ api_calls[k].outcome.kind # "response"
         /\ (k = 2 \/ api_calls[k].outcome # ApiError("BadRequestError", UnsupportedTemperatureMessage)) )
       => /\ k = Len(api_calls)
          /\ lpc = "done"
          /\ llm_returned = [kind |-> "raised", error |-> api_calls[k].outcome.kind,
                             message |-> api_calls[k].outcome.message]

\* the call without temperature was made and was itself rejected for the
\* temperature: the error left the function after two calls
C25_Witness ==
  /\ lpc = "done"
  /\ Len(api_calls) = 2
  /\ api_calls[1].outcome = ApiError("BadRequestError", UnsupportedTemperatureMessage)
  /\ api_calls[2].outcome = ApiError("BadRequestError", UnsupportedTemperatureMessage)
  /\ llm_returned.kind = "raised"
  /\ llm_returned.error = "BadRequestError"

\* C26 (a match has a flight number): every FlightBookingMatch that
\* extract_booking_details returns, and every one the fetcher keeps, holds at
\* least one flight number, so that flight_numbers[0] is defined; an email in
\* which a confirmation code is found and no flight number yields no match.
C26_MatchHasFlightNumber ==
  /\ \A k \in DOMAIN calls :
       calls[k].fn = "extract_booking_details" =>
         /\ calls[k].res.kind = "match" => Len(calls[k].res.flight_numbers) >= 1
         /\ ~ContextOf(calls[k].e).found => calls[k].res.kind = "none"
  /\ \A i \in DOMAIN filtered_emails : Len(filtered_emails[i].booking_details.flight_numbers) >= 1
  /\ \A r \in DOMAIN returned :
       \A i \in DOMAIN returned[r] : Len(returned[r][i].booking_details.flight_numbers) >= 1

\* extract_booking_details returned none for an email with a confirmation code,
\* the word "flight" and no flight number, and a match for an email with two
\* flight numbers and no confirmation code
C26_Witness ==
  /\ \E k \in DOMAIN calls :
       /\ calls[k].fn = "extract_booking_details"
       /\ ContextOf(calls[k].e).base = 4
       /\ ~ContextOf(calls[k].e).found
       /\ calls[k].res.kind = "none"
  /\ \E k \in DOMAIN calls :
       /\ calls[k].fn = "extract_booking_details"
       /\ calls[k].res.kind = "match"
       /\ calls[k].res.confirmation_code = <<>>
       /\ Len(calls[k].res.flight_numbers) = 2

\* for each stored email, the record of the airline's own parser and the
\* record of the generic parser, each as a dict, <<>> where there is none
ParserRow(e, airline, email) ==
  [e           |-> e,
   specialized |-> IF airline = VietJetAir /\ _parse_vietjet_email(email.subject, email.body) # NoFlightInfo
                   THEN <<to_dict(_parse_vietjet_email(email.subject, email.body))>>
                   ELSE <<>>,
   generic     |-> IF _parse_generic_email(email.subject, email.body, email.from) # NoFlightInfo
                   THEN <<to_dict(_parse_generic_email(email.subject, email.body, email.from))>>
                   ELSE <<>>]

ParserTable ==
  UNION { { ParserRow(e, airline, StoredEmails[e]) :
              airline \in {_detect_airline(StoredEmails[e].subject, StoredEmails[e].body,
                                           StoredEmails[e].from)} } :
            e \in DOMAIN StoredEmails }

\* the records of a list of dicts
RecordsOf(flight_dicts) == {flight_dicts[i] : i \in DOMAIN flight_dicts}

\* the records process_stored_emails returned, and those it wrote to the file
FinalRecords ==
  RecordsOf(proc_result.flights)
  \cup UNION {RecordsOf(output_written[i]) : i \in DOMAIN output_written}

\* C27 (the generic parser's records are dropped): a record of the generic
\* parser has an empty departure_datetime and is in no list that
\* process_stored_emails returns or writes; without LLM extraction every
\* record of the final list is a record of an airline's own parser and has a
\* departure_datetime.
C27_GenericNeverFinal ==
  /\ \A row \in ParserTable :
       \A i \in DOMAIN row.generic :
         /\ row.generic[i]["departure_datetime"] = Str(<<>>)
         /\ row.generic[i] \notin FinalRecords
  /\ ~(llm_settings.given /\ llm_settings.use_extraction) =>
       \A flight \in FinalRecords :
         /\ \E row \in ParserTable : row.specialized = <<flight>>
         /\ flight["departure_datetime"].tag = "str"
         /\ flight["departure_datetime"].s # <<>>

\* a run without the LLM collected a record of the generic parser and a
\* record of the VietJet Air parser, and returned and wrote the latter alone
C27_Witness ==
  /\ ~llm_settings.given
  /\ proc_result.kind = "returned"
  /\ Len(flight_info_list) = 2
  /\ \E row \in ParserTable : row.generic = <<flight_info_list[1]>> /\ row.specialized = <<>>
  /\ \E row \in ParserTable : row.specialized = <<flight_info_list[2]>>
  /\ proc_result.flights = <<flight_info_list[2]>>
  /\ output_written = <<proc_result.flights>>

\* the reasons for which the run is halted before the loop over the emails
SpendGateHalts == {"pricing", "not confirmed", "no api key", "missing dependencies"}

\* C28 (a halted run does nothing): when LLM extraction or the LLM filter is
\* asked for and the run is halted before the loop (a rate is unset, the run
\* is a dry run, the confirmation is declined or cannot be asked for, the API
\* key is unset, or openai or pydantic is missing), process_stored_emails
\* returns the empty list, parse_flight_email is not called and the output
\* file is not written.
C28_HaltedRunDoesNothing ==
  /\ (proc_result.kind = "returned" /\ proc_result.why \in SpendGateHalts) =>
       /\ proc_result.flights = <<>>
       /\ llm_calls = <<>>
       /\ flight_info_list = <<>>
       /\ output_written = <<>>
  /\ ( /\ pspc = "done"
       /\ emails # <<>>
       /\ llm_settings.given
       /\ llm_settings.use_extraction \/ llm_settings.classify_itinerary
       /\ \/ ~llm_settings.input_cost_per_million.set
          \/ ~llm_settings.output_cost_per_million.set
          \/ llm_settings.dry_run
          \/ llm_settings.api_key = None
          \/ confirm_call.called /\ ~confirm_call.result )
     => /\ proc_result = Returned(proc_result.why, <<>>)
        /\ proc_result.why \in SpendGateHalts
        /\ llm_calls = <<>>
        /\ output_written = <<>>

\* a run with LLM extraction, both rates, an API key and an output file was
\* declined at the prompt over an email that the VietJet Air parser reads
C28_Witness ==
  /\ proc_result = Returned("not confirmed", <<>>)
  /\ llm_settings.use_extraction
  /\ ~llm_settings.dry_run
  /\ confirm_call.prompted
  /\ emails = <<1>>
  /\ output_file # None
  /\ llm_calls = <<>>
  /\ output_written = <<>>

\* the LLM calls that failed: raised RuntimeError or an error of the API client
FailedLlmCalls ==
  {k \in LlmCallsMade : llm_calls[k].out \in {"RuntimeError", "APIError"}}

\* C29 (no partial result): once a call of the LLM has failed, the records
\* collected from the earlier emails are given up: process_stored_emails
\* returns no list but the empty one and the output file is not written.
C29_NoPartialResult ==
  FailedLlmCalls # {} =>
    /\ pspc = "done"
    /\ proc_result.kind \in {"returned", "raised"}
    /\ proc_result.flights = <<>>
    /\ output_written = <<>>
    /\ \A k \in FailedLlmCalls : k = Len(llm_calls)

\* the first email gave a record with a date, the classification of the
\* second failed, and the run with an output file returned the empty list
C29_Witness ==
  /\ Len(emails) = 2
  /\ flight_info_list = <<to_dict(ParseOf(1))>>
  /\ deduplicate_flights(flight_info_list) # <<>>
  /\ output_file = Str(<<"d","a","t","a","/","p","r","o","c","e","s","s","e","d","/","f","l","i","g","h","t","s","_","a","l","l",".","j","s","o","n">>)
  /\ llm_calls[Len(llm_calls)] = LlmCall("classify_itinerary_email_llm", 2, "RuntimeError")
  /\ proc_result = Returned("classification failed", <<>>)
  /\ output_written = <<>>

\* the calls of is_potential_flight_email made for the email id
PotentialCallsOf(id) ==
  {k \in DOMAIN calls : calls[k].fn = "is_potential_flight_email" /\ RawEmails[calls[k].e].id = id}

\* the places of the email id in the results returned so far
ResultsOf(id) ==
  {ri \in (DOMAIN returned) \X (1..MaxFetched) :
     ri[2] \in DOMAIN returned[ri[1]] /\ RawEmails[returned[ri[1]][ri[2]].e].id = id}

\* C30 (processed-id cache): over the calls of fetch_and_filter_emails of one
\* EmailFetcher no email id is passed to is_potential_flight_email more than
\* once and no email id is more than once in the returned results, also when
\* the id is twice in one batch.
C30_ProcessedIdCache ==
  \A e \in EmailIdx :
    /\ Cardinality(PotentialCallsOf(RawEmails[e].id)) <= 1
    /\ Cardinality(ResultsOf(RawEmails[e].id)) <= 1

====
